---- MODULE Spec2Model ----
(***************************************************************************)
(* Model of the RAG knowledge core of autonomous_research:                 *)
(*   rag/core.py            DocumentProcessor (chunking, create_chunks),   *)
(*                          EnhancedEmbeddingManager (embed_batch)         *)
(*   rag/vector_db.py       EnhancedVectorDatabase (local FAISS variant)   *)
(*   rag/elasticsearch_db.py ElasticsearchVectorDatabase                   *)
(*   rag/integration.py     StandaloneElasticsearchRAG (document ids)      *)
(* Text is a sequence of one-character strings.                            *)
(***************************************************************************)
EXTENDS Integers, Sequences, FiniteSets, TLC

VARIABLES
    content,        \* smart_chunk_text: the text handed to the chunker
    chunk_size,     \* smart_chunk_text: the chunk_size argument
    chunks,         \* smart_chunk_text: the returned list of chunks
    pc,             \* "start" before the call, "done" after it
    variant,        \* which VectorIndex variant was constructed: "local" or "es"
    model,          \* EnhancedEmbeddingManager.model: "model" or "None"
    FAISS_AVAILABLE,        \* vector_db.py module flag
    index,          \* EnhancedVectorDatabase.index: NoIndex (None) or a FAISS index
    chunk_metadata, \* EnhancedVectorDatabase.chunk_metadata: key -> entry
    document_registry,      \* EnhancedVectorDatabase.document_registry: doc id -> info
    next_index,     \* EnhancedVectorDatabase.next_index
    ELASTICSEARCH_AVAILABLE, \* elasticsearch_db.py module flag
    es,             \* ElasticsearchVectorDatabase.es: "client" or "None"
    init_outcome,   \* how the last ElasticsearchVectorDatabase.__init__ ended
    es_up,          \* backend: the Elasticsearch server answers requests
    es_index,       \* backend: "missing", "mapped" (created by setup_index) or "dynamic"
    es_docs,        \* backend: _id -> _source of the documents of the index
    last,           \* the last call of the index API and what it returned
    search_call,    \* the last search_similar_chunks call: request, what the
                    \* backend delivered, the returned RetrievalResults
    context_call,   \* the last ContextOptimizer call: arguments and returned string
    embedding_cache,  \* EnhancedEmbeddingManager.embedding_cache: text hash -> vector
    embed_call,     \* the last embed_text / embed_batch call and what it returned
    metadata_call,  \* the extract_metadata calls made on one DocumentProcessor
    file_call,      \* a batch of add_document_from_file calls
    history,        \* LoopDetector.history
    history_size,   \* LoopDetector.history_size
    repeat_threshold, \* LoopDetector.repeat_threshold
    loop_call,      \* the items added to the LoopDetector and its last answer
    disk,           \* the index file and the metadata file of the local variant
    ingestion       \* an add_document in progress and what a reader observed

cvars == <<content, chunk_size, chunks, pc>>
dbvars == <<variant, model, FAISS_AVAILABLE, index, chunk_metadata,
            document_registry, next_index, ELASTICSEARCH_AVAILABLE, es,
            init_outcome, es_up, es_index, es_docs, last>>
uvars == <<embedding_cache, embed_call, metadata_call, file_call, history,
           history_size, repeat_threshold, loop_call, disk, ingestion>>
svars == <<search_call, context_call, uvars>>
vars == <<cvars, dbvars, svars>>

\* ------------------------------------------------------------------ bounds
MaxLen == 5
MaxChunkSize == 4

\* ------------------------------------------------------- text primitives
NL == "\n"
Whitespace == {" ", NL}
Terminators == {".", "!", "?"}
Alphabet == {"a", "b", " ", NL, "."}

RECURSIVE LStrip(_)
LStrip(s) ==
    IF s = <<>> THEN s
    ELSE IF Head(s) \in Whitespace THEN LStrip(Tail(s)) ELSE s

RECURSIVE RStrip(_)
RStrip(s) ==
    IF s = <<>> THEN s
    ELSE IF s[Len(s)] \in Whitespace THEN RStrip(SubSeq(s, 1, Len(s) - 1)) ELSE s

\* str.strip()
Strip(s) == RStrip(LStrip(s))

\* content.split('\n\n'): leftmost, non-overlapping occurrences of the
\* two-character separator; cur is the piece being collected.
RECURSIVE SplitParagraphs(_, _)
SplitParagraphs(s, cur) ==
    IF s = <<>> THEN <<cur>>
    ELSE IF Len(s) >= 2 /\ s[1] = NL /\ s[2] = NL
         THEN <<cur>> \o SplitParagraphs(SubSeq(s, 3, Len(s)), <<>>)
         ELSE SplitParagraphs(Tail(s), Append(cur, Head(s)))

RECURSIVE DropTerminators(_)
DropTerminators(s) ==
    IF s = <<>> THEN s
    ELSE IF Head(s) \in Terminators THEN DropTerminators(Tail(s)) ELSE s

\* re.split(r'[.!?]+', paragraph): a maximal run of terminators is one
\* separator and is not part of any piece.
RECURSIVE SplitSentences(_, _)
SplitSentences(s, cur) ==
    IF s = <<>> THEN <<cur>>
    ELSE IF Head(s) \in Terminators
         THEN <<cur>> \o SplitSentences(DropTerminators(Tail(s)), <<>>)
         ELSE SplitSentences(Tail(s), Append(cur, Head(s)))

\* ------------------------------------------------------ smart_chunk_text
\* st = [chunks, current_chunk] is the state of the two loops.

\* body of "for sentence in sentences"
SentenceStep(st, raw, size) ==
    LET sentence == Strip(raw) IN
    IF sentence = <<>> THEN st
    ELSE IF Len(st.current_chunk) + Len(sentence) > size
         THEN [chunks |-> IF st.current_chunk # <<>>
                          THEN Append(st.chunks, Strip(st.current_chunk))
                          ELSE st.chunks,
               current_chunk |-> sentence]
         ELSE [chunks |-> st.chunks,
               current_chunk |-> IF st.current_chunk # <<>>
                                 THEN st.current_chunk \o <<" ">> \o sentence
                                 ELSE sentence]

RECURSIVE SentenceLoop(_, _, _)
SentenceLoop(st, sentences, size) ==
    IF sentences = <<>> THEN st
    ELSE SentenceLoop(SentenceStep(st, Head(sentences), size), Tail(sentences), size)

\* body of "for paragraph in paragraphs"
ParagraphStep(st, paragraph, size) ==
    IF Len(paragraph) > size
    THEN SentenceLoop(st, SplitSentences(paragraph, <<>>), size)
    ELSE IF Len(st.current_chunk) + Len(paragraph) > size
         THEN [chunks |-> IF st.current_chunk # <<>>
                          THEN Append(st.chunks, Strip(st.current_chunk))
                          ELSE st.chunks,
               current_chunk |-> paragraph]
         ELSE [chunks |-> st.chunks,
               current_chunk |-> IF st.current_chunk # <<>>
                                 THEN st.current_chunk \o <<NL, NL>> \o paragraph
                                 ELSE paragraph]

RECURSIVE ParagraphLoop(_, _, _)
ParagraphLoop(st, paragraphs, size) ==
    IF paragraphs = <<>> THEN st
    ELSE ParagraphLoop(ParagraphStep(st, Head(paragraphs), size), Tail(paragraphs), size)

\* the final "return [chunk for chunk in chunks if chunk.strip()]"
RECURSIVE NonBlank(_)
NonBlank(cs) ==
    IF cs = <<>> THEN <<>>
    ELSE IF Strip(Head(cs)) # <<>> THEN <<Head(cs)>> \o NonBlank(Tail(cs))
         ELSE NonBlank(Tail(cs))

smart_chunk_text(text, size) ==
    LET st == ParagraphLoop([chunks |-> <<>>, current_chunk |-> <<>>],
                            SplitParagraphs(text, <<>>), size)
        all == IF st.current_chunk # <<>>
               THEN Append(st.chunks, Strip(st.current_chunk))
               ELSE st.chunks
    IN NonBlank(all)

\* --------------------------------------------- the chunker specification
RECURSIVE StringsOfLen(_)
StringsOfLen(n) ==
    IF n = 0 THEN {<<>>}
    ELSE {Append(s, c) : s \in StringsOfLen(n - 1), c \in Alphabet}

Texts == UNION {StringsOfLen(n) : n \in 0..MaxLen}

\* self.index: None, or a FAISS index of dimension d holding vectors
NoIndex == [none |-> TRUE, d |-> 0, vectors |-> <<>>]
FaissIndex(d, vectors) == [none |-> FALSE, d |-> d, vectors |-> vectors]

\* no search_similar_chunks and no ContextOptimizer call has been made
NoSearch == [op |-> "none"]
NoContext == [op |-> "none"]

\* no embedding manager, LoopDetector or file batch is in use, nothing is on
\* disk and no ingestion is in progress
NoCall == [op |-> "none"]
NoMetadataFile == [exists |-> FALSE, chunk_metadata |-> <<>>,
                   document_registry |-> <<>>, next_index |-> 0]
NoFiles == [index_file |-> NoIndex, metadata_file |-> NoMetadataFile]
\* the utilities not named in used are as constructed: nothing embedded,
\* no metadata extracted, no file ingested, an empty LoopDetector, no
\* files on disk, no ingestion in progress
IdleExcept(used) ==
    /\ IF "embedder" \in used THEN TRUE
       ELSE embedding_cache = <<>> /\ embed_call = NoCall
    /\ IF "processor" \in used THEN TRUE ELSE metadata_call = NoCall
    /\ IF "files" \in used THEN TRUE ELSE file_call = NoCall
    /\ IF "detector" \in used THEN TRUE
       ELSE /\ history = <<>>
            /\ history_size = 0
            /\ repeat_threshold = 0
            /\ loop_call = NoCall
    /\ IF "disk" \in used THEN TRUE ELSE disk = NoFiles
    /\ IF "ingestion" \in used THEN TRUE ELSE ingestion = NoCall

NoUtilities == IdleExcept({})

NoCalls == search_call = NoSearch /\ context_call = NoContext /\ NoUtilities

\* no index is constructed while the chunker is examined on its own
NoIndexConstructed ==
    /\ variant = "none"
    /\ model = "None"
    /\ FAISS_AVAILABLE = FALSE
    /\ index = NoIndex
    /\ chunk_metadata = <<>>
    /\ document_registry = <<>>
    /\ next_index = 0
    /\ ELASTICSEARCH_AVAILABLE = FALSE
    /\ es = "None"
    /\ init_outcome = "none"
    /\ es_up = FALSE
    /\ es_index = "missing"
    /\ es_docs = <<>>
    /\ last = [op |-> "none"]

ChunkInit ==
    /\ content \in Texts
    /\ chunk_size \in 1..MaxChunkSize
    /\ chunks = <<>>
    /\ pc = "start"
    /\ NoIndexConstructed
    /\ NoCalls

SmartChunkText ==
    /\ pc = "start"
    /\ chunks' = smart_chunk_text(content, chunk_size)
    /\ pc' = "done"
    /\ UNCHANGED <<content, chunk_size, dbvars, svars>>

ChunkNext == SmartChunkText

ChunkSpec == ChunkInit /\ [][ChunkNext]_vars

\* ------------------------------------------------ claims on the chunker
\* stripped sentences of the paragraphs that smart_chunk_text splits by
\* sentence (those longer than size)
RECURSIVE SeqToSet(_)
SeqToSet(q) == IF q = <<>> THEN {} ELSE {Head(q)} \cup SeqToSet(Tail(q))

LongParagraphSentences(text, size) ==
    UNION {{Strip(r) : r \in SeqToSet(SplitSentences(p, <<>>))} :
           p \in {q \in SeqToSet(SplitParagraphs(text, <<>>)) : Len(q) > size}}

\* C1: every chunk returned by smart_chunk_text has length <= chunk_size,
\* unless the chunk is one single sentence that alone is longer than
\* chunk_size.
C1_ChunkWithinSize ==
    pc = "done" =>
        \A i \in 1..Len(chunks) :
            \/ Len(chunks[i]) <= chunk_size
            \/ /\ chunks[i] \in LongParagraphSentences(content, chunk_size)
               /\ Len(chunks[i]) > chunk_size

\* Whitespace normalisation: the words of a text, a word being a maximal
\* run of non-whitespace characters.
RECURSIVE Words(_, _)
Words(s, cur) ==
    IF s = <<>> THEN (IF cur = <<>> THEN <<>> ELSE <<cur>>)
    ELSE IF Head(s) \in Whitespace
         THEN (IF cur = <<>> THEN <<>> ELSE <<cur>>) \o Words(Tail(s), <<>>)
         ELSE Words(Tail(s), Append(cur, Head(s)))

\* chunks concatenated in order with the paragraph separator between them
RECURSIVE JoinChunks(_)
JoinChunks(cs) ==
    IF cs = <<>> THEN <<>>
    ELSE IF Len(cs) = 1 THEN Head(cs)
         ELSE Head(cs) \o <<NL, NL>> \o JoinChunks(Tail(cs))

\* C2: the chunks concatenated in order, with separators, are the input
\* text up to whitespace/separator normalisation: nothing is dropped,
\* duplicated or reordered.
C2_ChunksReconstructText ==
    pc = "done" => Words(JoinChunks(chunks), <<>>) = Words(content, <<>>)

\* =================================================================
\* The vector index: documents, chunks and embeddings
\* =================================================================
MaxIndex == 4            \* bound on EnhancedVectorDatabase.next_index

Docs == {"d1", "d2"}     \* document ids, one per (source, title)

\* DocumentProcessor.chunk_size of the processor handed to add_document
ProcessorChunkSize == 2

\* the texts a document is ingested with: no chunk, one chunk, two chunks
DocContents ==
    { <<>>, <<"a", "b">>, <<"b", "a">>, <<"a", "b", NL, NL, "b", "a">> }

EmbeddingDim == 384

\* EnhancedEmbeddingManager.embedding_dim
embedding_dim == EmbeddingDim

\* DocumentProcessor.create_chunks: chunk i of document d has
\* id "<d>_chunk_<i>" (the pair <<d, i>>) and chunk_index i, from 0
create_chunks(d, text) ==
    LET text_chunks == smart_chunk_text(text, ProcessorChunkSize) IN
    [i \in 1..Len(text_chunks) |->
        [id |-> <<d, i - 1>>,
         content |-> text_chunks[i],
         document_id |-> d,
         chunk_index |-> i - 1]]

\* EnhancedEmbeddingManager.embed_batch: one vector of embedding_dim per
\* text; a random vector when the model is not available
embed_batch(texts) ==
    [i \in 1..Len(texts) |->
        IF model = "None"
        THEN [dim |-> embedding_dim, of |-> "random"]
        ELSE [dim |-> embedding_dim, of |-> texts[i]]]

ChunkTexts(cs) == [i \in 1..Len(cs) |-> cs[i].content]

\* dict assignment m[k] = v
Put(m, k, v) == [x \in (DOMAIN m) \cup {k} |-> IF x = k THEN v ELSE m[x]]

\* what an index call reports; count is add_document's return value
Outcome(op, d, text, ret, count, hits, failed, contacted, conn_error) ==
    [op |-> op, doc |-> d, text |-> text, ret |-> ret, count |-> count,
     hits |-> hits, failed |-> failed, contacted |-> contacted,
     conn_error |-> conn_error]

Constructed == Outcome("__init__", "none", <<>>, "none", 0, {}, {}, FALSE, FALSE)

\* ------------------------------------------------------------------
\* Local variant: EnhancedVectorDatabase
\* ------------------------------------------------------------------
\* add_chunk_to_index on db = [chunk_metadata, index, next_index, chunk_count,
\* failed]: the metadata entry is stored first; index.add raises when the
\* vector does not have the dimension of the index, and the except branch
\* returns False without undoing the entry.
add_chunk_to_index(db, chunk, embedding) ==
    LET entry == [chunk_id |-> chunk.id,
                  content |-> chunk.content,
                  document_id |-> chunk.document_id,
                  chunk_index |-> chunk.chunk_index,
                  index_position |-> db.next_index]
        stored == Put(db.chunk_metadata, db.next_index, entry)
    IN
    IF ~db.index.none /\ FAISS_AVAILABLE
    THEN IF embedding.dim = db.index.d
         THEN [db EXCEPT !.chunk_metadata = stored,
                         !.index = FaissIndex(db.index.d,
                                              Append(db.index.vectors, embedding)),
                         !.next_index = db.next_index + 1,
                         !.chunk_count = db.chunk_count + 1]
         ELSE [db EXCEPT !.chunk_metadata = stored,
                         !.failed = db.failed \cup {chunk.chunk_index}]
    ELSE [db EXCEPT !.chunk_metadata = stored,
                    !.next_index = db.next_index + 1,
                    !.chunk_count = db.chunk_count + 1]

\* "for chunk, embedding in zip(chunks, embeddings)"
RECURSIVE AddChunks(_, _, _)
AddChunks(db, cs, embeddings) ==
    IF cs = <<>> \/ embeddings = <<>> THEN db
    ELSE AddChunks(add_chunk_to_index(db, Head(cs), Head(embeddings)),
                   Tail(cs), Tail(embeddings))

\* EnhancedVectorDatabase.add_document
LocalAddDocument(d, text) ==
    /\ variant = "local"
    /\ LET cs == create_chunks(d, text)
           db == AddChunks([chunk_metadata |-> chunk_metadata,
                            index |-> index,
                            next_index |-> next_index,
                            chunk_count |-> 0,
                            failed |-> {}],
                           cs, embed_batch(ChunkTexts(cs)))
       IN
       /\ next_index + Len(cs) <= MaxIndex
       /\ document_registry' = Put(document_registry, d, [character_count |-> Len(text)])
       /\ chunk_metadata' = db.chunk_metadata
       /\ index' = db.index
       /\ next_index' = db.next_index
       /\ last' = Outcome("add_document", d, text, "int", db.chunk_count, {},
                          db.failed, FALSE, FALSE)
    /\ UNCHANGED <<cvars, svars, variant, model, FAISS_AVAILABLE,
                   ELASTICSEARCH_AVAILABLE, es, init_outcome, es_up, es_index, es_docs>>

\* EnhancedVectorDatabase has no delete_document (nor any other method that
\* removes an entry): the call raises AttributeError and changes nothing.
LocalDeleteDocument(d) ==
    /\ variant = "local"
    /\ last' = Outcome("delete_document", d, <<>>, "AttributeError", 0, {}, {}, FALSE, FALSE)
    /\ UNCHANGED <<cvars, svars, variant, model, FAISS_AVAILABLE, index, chunk_metadata,
                   document_registry, next_index,
                   ELASTICSEARCH_AVAILABLE, es, init_outcome, es_up, es_index, es_docs>>

\* __init__: initialize_index, then load_existing_data; the index file, when
\* there is one, was written for an embedding model of any dimension.
IndexDims == {embedding_dim, 2 * embedding_dim}

LocalInit ==
    /\ variant = "local"
    /\ model \in {"model", "None"}
    /\ FAISS_AVAILABLE \in BOOLEAN
    /\ index \in (IF FAISS_AVAILABLE
                  THEN {FaissIndex(dim, <<>>) : dim \in IndexDims}
                  ELSE {NoIndex})
    /\ chunk_metadata = <<>>
    /\ document_registry = <<>>
    /\ next_index = 0
    /\ ELASTICSEARCH_AVAILABLE = FALSE
    /\ es = "None"
    /\ init_outcome = "none"
    /\ es_up = FALSE
    /\ es_index = "missing"
    /\ es_docs = <<>>
    /\ last = Constructed

\* ------------------------------------------------------------------
\* Distributed variant: ElasticsearchVectorDatabase
\* ------------------------------------------------------------------
PingResults == {"true", "false", "raise"}
SetupResults == {"ok", "raise"}

\* __init__ from "if not ELASTICSEARCH_AVAILABLE" on, with setup_index:
\* the values of es, of the backend's index and how construction ended.
\* es is set to None when the client library is missing, when ping() is
\* false and when ping() raises; a failure inside setup_index is printed
\* and leaves es set.
ESConstruct(lib, idx, ping, setup) ==
    IF ~lib THEN [es |-> "None", es_index |-> idx, init_outcome |-> "no_client"]
    ELSE IF ping = "true"
         THEN IF setup = "ok"
              THEN [es |-> "client",
                    es_index |-> IF idx = "missing" THEN "mapped" ELSE idx,
                    init_outcome |-> "ready"]
              ELSE [es |-> "client", es_index |-> idx, init_outcome |-> "setup_failed"]
         ELSE IF ping = "false"
              THEN [es |-> "None", es_index |-> idx, init_outcome |-> "ping_failed"]
              ELSE [es |-> "None", es_index |-> idx, init_outcome |-> "ping_raised"]

\* ping() is true only when the server answers
PingPossible(up, ping) == (ping = "true") => up

ESInitState ==
    /\ variant = "es"
    /\ model \in {"model", "None"}
    /\ ELASTICSEARCH_AVAILABLE \in BOOLEAN
    /\ es_up \in BOOLEAN
    /\ \E idx \in {"missing", "mapped"}, ping \in PingResults, setup \in SetupResults :
          /\ PingPossible(es_up, ping)
          /\ LET c == ESConstruct(ELASTICSEARCH_AVAILABLE, idx, ping, setup) IN
             /\ es = c.es
             /\ es_index = c.es_index
             /\ init_outcome = c.init_outcome
    /\ es_docs = <<>>
    /\ last = Constructed
    /\ FAISS_AVAILABLE = FALSE
    /\ index = NoIndex
    /\ chunk_metadata = <<>>
    /\ document_registry = <<>>
    /\ next_index = 0

\* a new ElasticsearchVectorDatabase is constructed over the same backend
ESInit(ping, setup) ==
    /\ variant = "es"
    /\ PingPossible(es_up, ping)
    /\ LET c == ESConstruct(ELASTICSEARCH_AVAILABLE, es_index, ping, setup) IN
       /\ es' = c.es
       /\ es_index' = c.es_index
       /\ init_outcome' = c.init_outcome
    /\ last' = Constructed
    /\ UNCHANGED <<cvars, svars, variant, model, FAISS_AVAILABLE, index, chunk_metadata,
                   document_registry, next_index, ELASTICSEARCH_AVAILABLE, es_up, es_docs>>

\* the server stops / starts answering
BackendDown ==
    /\ variant = "es"
    /\ es_up
    /\ es_up' = FALSE
    /\ UNCHANGED <<cvars, svars, variant, model, FAISS_AVAILABLE, index, chunk_metadata,
                   document_registry, next_index, ELASTICSEARCH_AVAILABLE, es,
                   init_outcome, es_index, es_docs, last>>

BackendUp ==
    /\ variant = "es"
    /\ ~es_up
    /\ es_up' = TRUE
    /\ UNCHANGED <<cvars, svars, variant, model, FAISS_AVAILABLE, index, chunk_metadata,
                   document_registry, next_index, ELASTICSEARCH_AVAILABLE, es,
                   init_outcome, es_index, es_docs, last>>

\* the action add_document builds for one chunk: _id is the chunk id
BulkAction(chunk, embedding) ==
    [chunk_id |-> chunk.id,
     content |-> chunk.content,
     content_vector |-> embedding,
     document_id |-> chunk.document_id,
     chunk_index |-> chunk.chunk_index]

\* helpers.bulk: every action the server accepts is indexed under its _id,
\* whatever happens to its neighbours
RECURSIVE BulkIndex(_, _, _, _)
BulkIndex(docs, cs, embeddings, rejected) ==
    IF cs = <<>> \/ embeddings = <<>> THEN docs
    ELSE BulkIndex(IF Head(cs).chunk_index \in rejected
                   THEN docs
                   ELSE Put(docs, Head(cs).id, BulkAction(Head(cs), Head(embeddings))),
                   Tail(cs), Tail(embeddings), rejected)

ChunkIndexes(cs) == {cs[i].chunk_index : i \in 1..Len(cs)}

\* ElasticsearchVectorDatabase.add_document; rejected are the chunks the
\* server refuses.  helpers.bulk raises BulkIndexError (raise_on_error is
\* left at its default) when an action was refused, and the except branch
\* returns 0.
ESAddDocument(d, text, rejected) ==
    /\ variant = "es"
    /\ LET cs == create_chunks(d, text)
           embeddings == embed_batch(ChunkTexts(cs))
       IN
       IF es = "None" \/ cs = <<>>
       THEN /\ rejected = {}
            /\ last' = Outcome("add_document", d, text, "int", 0, {}, {}, FALSE, FALSE)
            /\ UNCHANGED <<es_docs, es_index>>
       ELSE IF ~es_up
       THEN /\ rejected = {}
            /\ last' = Outcome("add_document", d, text, "int", 0, {},
                               ChunkIndexes(cs), TRUE, TRUE)
            /\ UNCHANGED <<es_docs, es_index>>
       ELSE /\ rejected \subseteq ChunkIndexes(cs)
            /\ es_docs' = BulkIndex(es_docs, cs, embeddings, rejected)
            /\ es_index' = IF es_index = "missing" /\ rejected # ChunkIndexes(cs)
                           THEN "dynamic" ELSE es_index
            /\ last' = Outcome("add_document", d, text, "int",
                               IF rejected = {} THEN Len(cs) ELSE 0,
                               {}, rejected, TRUE, FALSE)
    /\ UNCHANGED <<cvars, svars, variant, model, FAISS_AVAILABLE, index, chunk_metadata,
                   document_registry, next_index, ELASTICSEARCH_AVAILABLE, es,
                   init_outcome, es_up>>

\* delete_document without its try/except: the connection error of
\* delete_by_query reaches the caller
ESDeleteDocument_NoExcept(d) ==
    /\ variant = "es"
    /\ IF es = "None"
       THEN /\ last' = Outcome("delete_document", d, <<>>, "False", 0, {}, {}, FALSE, FALSE)
            /\ UNCHANGED es_docs
       ELSE IF ~es_up
       THEN /\ last' = Outcome("delete_document", d, <<>>, "ConnectionError", 0, {}, {}, TRUE, TRUE)
            /\ UNCHANGED es_docs
       ELSE IF es_index = "missing"
       THEN /\ last' = Outcome("delete_document", d, <<>>, "NotFoundError", 0, {}, {}, TRUE, FALSE)
            /\ UNCHANGED es_docs
       ELSE /\ es_docs' = [id \in {x \in DOMAIN es_docs : es_docs[x].document_id # d}
                             |-> es_docs[id]]
            /\ last' = Outcome("delete_document", d, <<>>, "True", 0, {}, {}, TRUE, FALSE)
    /\ UNCHANGED <<cvars, svars, variant, model, FAISS_AVAILABLE, index, chunk_metadata,
                   document_registry, next_index, ELASTICSEARCH_AVAILABLE, es,
                   init_outcome, es_up, es_index>>

\* ElasticsearchVectorDatabase.delete_document: delete_by_query on document_id
ESDeleteDocument(d) ==
    /\ variant = "es"
    /\ IF es = "None"
       THEN /\ last' = Outcome("delete_document", d, <<>>, "False", 0, {}, {}, FALSE, FALSE)
            /\ UNCHANGED es_docs
       ELSE IF ~es_up
       THEN /\ last' = Outcome("delete_document", d, <<>>, "False", 0, {}, {}, TRUE, TRUE)
            /\ UNCHANGED es_docs
       ELSE IF es_index = "missing"
       THEN /\ last' = Outcome("delete_document", d, <<>>, "False", 0, {}, {}, TRUE, FALSE)
            /\ UNCHANGED es_docs
       ELSE /\ es_docs' = [id \in {x \in DOMAIN es_docs : es_docs[x].document_id # d}
                             |-> es_docs[id]]
            /\ last' = Outcome("delete_document", d, <<>>, "True", 0, {}, {}, TRUE, FALSE)
    /\ UNCHANGED <<cvars, svars, variant, model, FAISS_AVAILABLE, index, chunk_metadata,
                   document_registry, next_index, ELASTICSEARCH_AVAILABLE, es,
                   init_outcome, es_up, es_index>>

\* ElasticsearchVectorDatabase.search_similar_chunks, as far as the index
\* lifecycle goes: the early return, the request, the except branch.  The
\* hits are chunks the server holds; the returned chunks are among them.
ESSearch(hits) ==
    /\ variant = "es"
    /\ IF es = "None"
       THEN /\ hits = {}
            /\ last' = Outcome("search_similar_chunks", "none", <<>>, "list", 0, {}, {}, FALSE, FALSE)
       ELSE IF ~es_up
       THEN /\ hits = {}
            /\ last' = Outcome("search_similar_chunks", "none", <<>>, "list", 0, {}, {}, TRUE, TRUE)
       ELSE IF es_index = "missing"
       THEN /\ hits = {}
            /\ last' = Outcome("search_similar_chunks", "none", <<>>, "list", 0, {}, {}, TRUE, FALSE)
       ELSE /\ hits \subseteq DOMAIN es_docs
            /\ last' = Outcome("search_similar_chunks", "none", <<>>, "list",
                               Cardinality(hits), hits, {}, TRUE, FALSE)
    /\ UNCHANGED <<cvars, svars, variant, model, FAISS_AVAILABLE, index, chunk_metadata,
                   document_registry, next_index, ELASTICSEARCH_AVAILABLE, es,
                   init_outcome, es_up, es_index, es_docs>>

\* ElasticsearchVectorDatabase.get_statistics: total_chunks is the count
ESGetStatistics ==
    /\ variant = "es"
    /\ IF es = "None"
       THEN last' = Outcome("get_statistics", "none", <<>>, "error", 0, {}, {}, FALSE, FALSE)
       ELSE IF ~es_up
       THEN last' = Outcome("get_statistics", "none", <<>>, "error", 0, {}, {}, TRUE, TRUE)
       ELSE IF es_index = "missing"
       THEN last' = Outcome("get_statistics", "none", <<>>, "error", 0, {}, {}, TRUE, FALSE)
       ELSE last' = Outcome("get_statistics", "none", <<>>, "stats",
                            Cardinality(DOMAIN es_docs), {}, {}, TRUE, FALSE)
    /\ UNCHANGED <<cvars, svars, variant, model, FAISS_AVAILABLE, index, chunk_metadata,
                   document_registry, next_index, ELASTICSEARCH_AVAILABLE, es,
                   init_outcome, es_up, es_index, es_docs>>

\* ------------------------------------------------------------------
\* The index specification
\* ------------------------------------------------------------------
ChunkerIdle ==
    /\ content = <<>>
    /\ chunk_size = ProcessorChunkSize
    /\ chunks = <<>>
    /\ pc = "idle"

Init == ChunkerIdle /\ NoCalls /\ (LocalInit \/ ESInitState)

MaxChunks == 2           \* most chunks a text of DocContents gives

Next ==
    \/ \E d \in Docs, text \in DocContents : LocalAddDocument(d, text)
    \/ \E d \in Docs : LocalDeleteDocument(d)
    \/ \E ping \in PingResults, setup \in SetupResults : ESInit(ping, setup)
    \/ BackendDown
    \/ BackendUp
    \/ \E d \in Docs, text \in DocContents, rejected \in SUBSET (0..MaxChunks - 1) :
          ESAddDocument(d, text, rejected)
    \/ \E d \in Docs : ESDeleteDocument(d)
    \/ \E hits \in SUBSET (Docs \X (0..MaxChunks - 1)) : ESSearch(hits)
    \/ ESGetStatistics

Spec == Init /\ [][Next]_vars

\* =================================================================
\* Retrieval: search_similar_chunks of both variants
\* Scores are in hundredths (0.7 is 70); combined_score, a sum of
\* products of two such numbers by tenths, is in thousandths.
\* =================================================================
Min(a, b) == IF a <= b THEN a ELSE b
Max(a, b) == IF a >= b THEN a ELSE b

\* similarity_threshold of __init__ (0.7) and the threshold written into
\* _fallback_search (0.1)
DefaultSimilarityThreshold == 70
FallbackThreshold == 10

\* "if similarity_threshold is None: similarity_threshold = self.similarity_threshold"
\* the similarity_threshold argument is [given |-> FALSE] for None
EffectiveThreshold(similarity_threshold) ==
    IF similarity_threshold.given THEN similarity_threshold.value
    ELSE DefaultSimilarityThreshold

\* source_scores and source_scores.get(source_type, 0.5)
source_scores ==
    [academic |-> 90, github |-> 70, cti |-> 80, blog |-> 60, manual |-> 50]
SourceScore(source_type) ==
    IF source_type \in DOMAIN source_scores THEN source_scores[source_type] ELSE 50

\* the part of _calculate_authority_score both variants share, before the
\* final min(1.0, score); score is the value the sum starts from
AuthoritySum(score, source_type, frameworks, techniques, cves) ==
    score
    + (SourceScore(source_type) * 4) \div 10
    + (IF "MITRE_ATTACK" \in frameworks THEN 30 ELSE 0)
    + (IF frameworks \cap {"NIST", "OWASP", "CIS"} # {} THEN 20 ELSE 0)
    + (IF techniques # {} THEN Min(20, Cardinality(techniques) * 5) ELSE 0)
    + (IF cves # {} THEN Min(10, Cardinality(cves) * 2) ELSE 0)

\* EnhancedVectorDatabase._calculate_authority_score: starts from 0.0 and
\* reads the chunk's metadata
LocalAuthorityScore(entry) ==
    Min(100, AuthoritySum(0, entry.metadata.document_source_type,
                          entry.metadata.security_frameworks,
                          entry.metadata.mitre_techniques,
                          entry.metadata.cves))

\* ElasticsearchVectorDatabase._calculate_authority_score: starts from the
\* authority_score stored with the chunk
ESAuthorityScore(source) ==
    Min(100, AuthoritySum(source.authority_score, source.source_type,
                          source.security_frameworks,
                          source.mitre_techniques,
                          source.cves))

\* the day search runs on, and _calculate_temporal_score for a chunk
\* created on day created_at
Today == 1000
calculate_temporal_score(created_at) ==
    LET age_days == Today - created_at IN
    IF age_days <= 30 THEN 100
    ELSE IF age_days <= 90 THEN 80
    ELSE IF age_days <= 365 THEN 60
    ELSE IF age_days <= 730 THEN 40
    ELSE 20

\* the weights of similarity and authority exchanged
CombinedScore_AuthorityFirst(similarity, authority, temporal) ==
    similarity * 3 + authority * 5 + temporal * 2

\* the combined score of the vector paths (local FAISS, Elasticsearch) and
\* of _fallback_search
CombinedScore(similarity, authority, temporal) ==
    similarity * 5 + authority * 3 + temporal * 2
FallbackCombinedScore(similarity, authority, temporal) ==
    similarity * 6 + authority * 3 + temporal * 1

\* RetrievalResult, with the chunk reduced to its id and document_id
RetrievalResult(chunk_id, document_id, similarity, authority, temporal, combined, rank) ==
    [chunk_id |-> chunk_id, document_id |-> document_id,
     similarity_score |-> similarity, authority_score |-> authority,
     temporal_score |-> temporal, combined_score |-> combined, rank |-> rank]

\* results.sort(key=lambda x: x.combined_score, reverse=True): the sort is
\* stable, results of equal combined_score keep the order they were
\* appended in
RECURSIVE InsertByCombined(_, _)
InsertByCombined(sorted, r) ==
    IF sorted = <<>> THEN <<r>>
    ELSE IF Head(sorted).combined_score >= r.combined_score
         THEN <<Head(sorted)>> \o InsertByCombined(Tail(sorted), r)
         ELSE <<r>> \o sorted

RECURSIVE SortFrom(_, _)
SortFrom(sorted, rest) ==
    IF rest = <<>> THEN sorted
    ELSE SortFrom(InsertByCombined(sorted, Head(rest)), Tail(rest))

SortByCombined(results) == SortFrom(<<>>, results)

\* ranks given to one result too few: the last returned result keeps rank 0
AssignRanks_OneShort(results, top_k) ==
    [i \in 1..Len(results) |->
        IF i < top_k THEN [results[i] EXCEPT !.rank = i] ELSE results[i]]

\* "for i, result in enumerate(results[:top_k]): result.rank = i + 1"
AssignRanks(results, top_k) ==
    [i \in 1..Len(results) |->
        IF i <= top_k THEN [results[i] EXCEPT !.rank = i] ELSE results[i]]

\* "return results[:top_k]"
Truncate(results, top_k) == SubSeq(results, 1, Min(top_k, Len(results)))

\* the tail of the three search paths: sort, rank, truncate
SortRankTruncate(results, top_k) ==
    Truncate(AssignRanks(SortByCombined(results), top_k), top_k)

\* filter_metadata: None, or one key with the value (expected is the
\* set of that one value) or the list of values it has to have
NoFilter == [none |-> TRUE, key |-> "", expected |-> {}, is_list |-> FALSE]
Filter(key, expected, is_list) ==
    [none |-> FALSE, key |-> key, expected |-> expected, is_list |-> is_list]

\* EnhancedVectorDatabase._matches_filter for a one-key filter
matches_filter(chunk_entry, filter_metadata) ==
    /\ filter_metadata.key \in DOMAIN chunk_entry
    /\ IF filter_metadata.is_list
       THEN chunk_entry[filter_metadata.key] \in filter_metadata.expected
       ELSE {chunk_entry[filter_metadata.key]} = filter_metadata.expected

\* str.lower() and str.split()
Lower(s) ==
    [i \in 1..Len(s) |-> IF s[i] = "A" THEN "a" ELSE IF s[i] = "B" THEN "b" ELSE s[i]]
SplitWords(s) == SeqToSet(Words(s, <<>>))

\* the loop of search_similar_chunks over zip(scores[0], indices[0]);
\* a hit is [idx, score], score the squared L2 distance FAISS reports
RECURSIVE ProcessFaissHits(_, _, _, _)
ProcessFaissHits(hits, metadata, similarity_threshold, filter_metadata) ==
    IF hits = <<>> THEN <<>>
    ELSE LET hit == Head(hits)
             rest == ProcessFaissHits(Tail(hits), metadata, similarity_threshold,
                                      filter_metadata)
             similarity_score == (200 - hit.score) \div 2
         IN
         IF similarity_score < similarity_threshold THEN rest
         ELSE IF hit.idx \notin DOMAIN metadata THEN rest
         ELSE IF ~filter_metadata.none /\ ~matches_filter(metadata[hit.idx], filter_metadata)
              THEN rest
         ELSE LET entry == metadata[hit.idx]
                  authority_score == LocalAuthorityScore(entry)
                  temporal_score == calculate_temporal_score(entry.created_at)
              IN <<RetrievalResult(entry.chunk_id, entry.document_id,
                                   similarity_score, authority_score, temporal_score,
                                   CombinedScore(similarity_score, authority_score,
                                                 temporal_score), 0)>> \o rest

\* the loop of _fallback_search over chunk_metadata.items(), in insertion
\* order (keys is that order)
RECURSIVE ProcessFallback(_, _, _, _)
ProcessFallback(keys, metadata, query, filter_metadata) ==
    IF keys = <<>> THEN <<>>
    ELSE LET entry == metadata[Head(keys)]
             rest == ProcessFallback(Tail(keys), metadata, query, filter_metadata)
             query_words == SplitWords(Lower(query))
             content_words == SplitWords(Lower(entry.content))
         IN
         IF Cardinality(query_words) = 0 THEN rest
         ELSE LET similarity_score ==
                      (100 * Cardinality(query_words \cap content_words))
                          \div Cardinality(query_words)
              IN
              IF similarity_score < FallbackThreshold THEN rest
              ELSE IF ~filter_metadata.none /\ ~matches_filter(entry, filter_metadata)
                   THEN rest
              ELSE LET authority_score == LocalAuthorityScore(entry)
                       temporal_score == calculate_temporal_score(entry.created_at)
                   IN <<RetrievalResult(entry.chunk_id, entry.document_id,
                                        similarity_score, authority_score,
                                        temporal_score,
                                        FallbackCombinedScore(similarity_score,
                                                              authority_score,
                                                              temporal_score), 0)>> \o rest

\* ------------------------------------------------------------------
\* What the backends deliver
\* ------------------------------------------------------------------
\* the sequences that list every element of S once
Orders(S) ==
    {f \in [1..Cardinality(S) -> S] :
        \A i, j \in 1..Cardinality(S) : f[i] = f[j] => i = j}

\* keys 0..n-1 of chunk_metadata in insertion order
KeysInOrder(metadata) == [i \in 1..Cardinality(DOMAIN metadata) |-> i - 1]

\* index.search(query_2d, k): the k stored vectors nearest to the query by
\* squared L2 distance, nearest first; dist[p] is the distance of the
\* vector at position p, order breaks ties between equal distances
FaissSearch(dist, order, k) ==
    [i \in 1..k |-> [idx |-> order[i], score |-> dist[order[i]]]]

Ascending(dist, order) ==
    \A i, j \in DOMAIN order : i < j => dist[order[i]] <= dist[order[j]]

\* the search request: a bool query of two should clauses, the
\* script_score on the vector with min_score and the boosted multi_match
\* (use_hybrid_search is left at True), and the filter clauses.
\* score[id] = [cos, text]: cosine similarity to the query vector and the
\* boosted full-text score (0: no match) of document id.
VectorClauseMatches(sc, similarity_threshold) == sc.cos + 100 >= similarity_threshold + 100
TextClauseMatches(sc) == sc.text > 0

\* _score: the sum over the should clauses that match
HitScore(sc, similarity_threshold) ==
    (IF VectorClauseMatches(sc, similarity_threshold) THEN sc.cos + 100 ELSE 0)
    + (IF TextClauseMatches(sc) THEN sc.text ELSE 0)

\* the documents the query matches: with filter clauses the should
\* clauses are optional, without them one of the two has to match
ESMatching(docs, score, similarity_threshold, filter_metadata) ==
    {id \in DOMAIN docs :
        IF filter_metadata.none
        THEN \/ VectorClauseMatches(score[id], similarity_threshold)
             \/ TextClauseMatches(score[id])
        ELSE matches_filter(docs[id], filter_metadata)}

\* response["hits"]["hits"]: the first "size" matching documents by
\* descending _score
ESHits(docs, score, similarity_threshold, order, size) ==
    [i \in 1..Min(size, Len(order)) |->
        [id |-> order[i], score |-> HitScore(score[order[i]], similarity_threshold)]]

Descending(score, similarity_threshold, order) ==
    \A i, j \in DOMAIN order :
        i < j => HitScore(score[order[i]], similarity_threshold)
                     >= HitScore(score[order[j]], similarity_threshold)

\* the loop of ElasticsearchVectorDatabase.search_similar_chunks over the hits
RECURSIVE ProcessESHits(_, _, _)
ProcessESHits(hits, docs, similarity_threshold) ==
    IF hits = <<>> THEN <<>>
    ELSE LET hit == Head(hits)
             source == docs[hit.id]
             rest == ProcessESHits(Tail(hits), docs, similarity_threshold)
             similarity_score == Max(0, hit.score - 100)
         IN
         IF similarity_score < similarity_threshold THEN rest
         ELSE LET authority_score == ESAuthorityScore(source)
                  temporal_score == calculate_temporal_score(source.created_at)
              IN <<RetrievalResult(source.chunk_id, source.document_id,
                                   similarity_score, authority_score, temporal_score,
                                   CombinedScore(similarity_score, authority_score,
                                                 temporal_score), 0)>> \o rest

\* ------------------------------------------------------------------
\* search_similar_chunks
\* ------------------------------------------------------------------
MaxTopK == 2             \* bound on the top_k argument
MaxStored == 3           \* bound on the chunks the searched index holds

\* squared L2 distances FAISS reports (similarity 1.0, 0.8, 0.1)
Distances == {0, 40, 180}
\* cosine similarities and boosted full-text scores Elasticsearch computes
CosValues == {30, 100}
TextScores == {0, 60}
ESScores == [cos : CosValues, text : TextScores]

Queries == { <<>>, <<"A", "b">>, <<"a", "b", " ", "b", "a">> }
Thresholds ==
    {[given |-> FALSE, value |-> 0], [given |-> TRUE, value |-> 0],
     [given |-> TRUE, value |-> 50]}
Filters ==
    {NoFilter, Filter("document_id", {"d2"}, FALSE), Filter("document_id", {"d1"}, TRUE)}

\* a search_similar_chunks call: the arguments, backend[k], what the
\* backend computes for stored chunk k against the query (FAISS: distance,
\* Elasticsearch: [cos, text]), and once the call has returned
\* (op = "search_similar_chunks") the path taken, whether the backend
\* answered, found, the results list as the loop over the hits built it,
\* and results, the returned list
SearchRequest(query, top_k, similarity_threshold, filter_metadata, backend) ==
    [op |-> "request", path |-> "none", query |-> query,
     top_k |-> top_k, similarity_threshold |-> similarity_threshold,
     filter_metadata |-> filter_metadata, backend |-> backend,
     answered |-> FALSE, found |-> <<>>, results |-> <<>>]

\* the end of a search path: "results.sort(...)", the ranks of
\* results[:top_k], "return results[:top_k]"
Returned(request, path, answered, found) ==
    [request EXCEPT !.op = "search_similar_chunks", !.path = path,
                    !.answered = answered, !.found = found,
                    !.results = SortRankTruncate(found, request.top_k)]

\* EnhancedVectorDatabase.search_similar_chunks, with _fallback_search
LocalSearchSimilarChunks ==
    /\ variant = "local"
    /\ search_call.op = "request"
    /\ LET query == search_call.query
           top_k == search_call.top_k
           similarity_threshold == EffectiveThreshold(search_call.similarity_threshold)
           filter_metadata == search_call.filter_metadata
       IN
       IF index.none \/ ~FAISS_AVAILABLE
       THEN search_call' =
                Returned(search_call, "fallback", TRUE,
                         ProcessFallback(KeysInOrder(chunk_metadata),
                                         chunk_metadata, query, filter_metadata))
       ELSE LET ntotal == Len(index.vectors)
                dist == search_call.backend
            IN \E order \in Orders(0..(ntotal - 1)) :
                  /\ Ascending(dist, order)
                  /\ search_call' =
                        Returned(search_call, "ann", TRUE,
                                 ProcessFaissHits(
                                     FaissSearch(dist, order, Min(top_k * 2, ntotal)),
                                     chunk_metadata, similarity_threshold,
                                     filter_metadata))
    /\ UNCHANGED <<cvars, dbvars, context_call, uvars>>

\* ElasticsearchVectorDatabase.search_similar_chunks
ESSearchSimilarChunks ==
    /\ variant = "es"
    /\ search_call.op = "request"
    /\ LET top_k == search_call.top_k
           similarity_threshold == EffectiveThreshold(search_call.similarity_threshold)
           filter_metadata == search_call.filter_metadata
           score == search_call.backend
       IN
       IF es = "None"
       THEN search_call' = Returned(search_call, "es", FALSE, <<>>)
       ELSE IF ~es_up \/ es_index = "missing"
       THEN search_call' = Returned(search_call, "es", FALSE, <<>>)
       ELSE \E order \in Orders(ESMatching(es_docs, score, similarity_threshold,
                                            filter_metadata)) :
               /\ Descending(score, similarity_threshold, order)
               /\ search_call' =
                     Returned(search_call, "es", TRUE,
                              ProcessESHits(
                                  ESHits(es_docs, score, similarity_threshold,
                                         order, top_k * 2),
                                  es_docs, similarity_threshold))
    /\ UNCHANGED <<cvars, dbvars, context_call, uvars>>

\* ------------------------------------------------------------------
\* The searched index: documents d1 and d2 have been ingested
\* ------------------------------------------------------------------
\* what a Document brings to scoring: source_type, authority_score, the
\* metadata lists of extract_metadata and created_at (as a day number)
DocProfiles ==
    { [source_type |-> "manual", authority_score |-> 0,
       security_frameworks |-> {}, mitre_techniques |-> {}, cves |-> {},
       created_at |-> 0],
      [source_type |-> "academic", authority_score |-> 90,
       security_frameworks |-> {"MITRE_ATTACK", "NIST"},
       mitre_techniques |-> {"T1059", "T1003", "T1021", "T1055"},
       cves |-> {"CVE-2021-44228"},
       created_at |-> 990] }

\* the chunk_metadata entry add_chunk_to_index stores, with the fields
\* scoring reads
LocalEntry(chunk, doc, position) ==
    [chunk_id |-> chunk.id,
     content |-> chunk.content,
     document_id |-> chunk.document_id,
     chunk_index |-> chunk.chunk_index,
     metadata |-> [document_source_type |-> doc.source_type,
                   security_frameworks |-> doc.security_frameworks,
                   mitre_techniques |-> doc.mitre_techniques,
                   cves |-> doc.cves],
     created_at |-> doc.created_at,
     index_position |-> position]

\* the _source add_document indexes for a chunk, with the fields scoring reads
ESSource(chunk, embedding, doc) ==
    [chunk_id |-> chunk.id,
     content |-> chunk.content,
     content_vector |-> embedding,
     document_id |-> chunk.document_id,
     chunk_index |-> chunk.chunk_index,
     created_at |-> doc.created_at,
     source_type |-> doc.source_type,
     authority_score |-> doc.authority_score,
     mitre_techniques |-> doc.mitre_techniques,
     security_frameworks |-> doc.security_frameworks,
     cves |-> doc.cves]

\* the texts d1 and d2 were ingested with (those of at most MaxStored
\* chunks together are used)
SearchedContents ==
    { <<<<"a", "b", NL, NL, "b", "a">>, <<"a", "b">>>>,
      <<<<"a", "b", NL, NL, "b", "a">>, <<>>>>,
      <<<<"a", "b">>, <<"b", "a">>>>,
      <<<<"a", "b">>, <<"a", "b", NL, NL, "b", "a">>>>,
      <<<<"a", "b", NL, NL, "b", "a">>, <<"a", "b", NL, NL, "b", "a">>>> }

\* a request with the query, top_k, threshold and filter of the caller
Requests(queries, backends) ==
    {SearchRequest(query, top_k, similarity_threshold, filter_metadata, backend) :
        query \in queries, top_k \in 1..MaxTopK,
        similarity_threshold \in Thresholds, filter_metadata \in Filters,
        backend \in backends}

SearchInit ==
    /\ ChunkerIdle
    /\ context_call = NoContext
    /\ NoUtilities
    /\ model = "model"
    /\ last = Constructed
    /\ \E texts \in SearchedContents, prof \in [Docs -> DocProfiles] :
          LET t1 == texts[1]
              t2 == texts[2]
              cs == create_chunks("d1", t1) \o create_chunks("d2", t2)
              embeddings == embed_batch(ChunkTexts(cs))
          IN
          /\ Len(cs) <= MaxStored
          /\ \/ /\ variant = "local"
                /\ FAISS_AVAILABLE \in BOOLEAN
                /\ index = IF FAISS_AVAILABLE
                           THEN FaissIndex(embedding_dim, embeddings)
                           ELSE NoIndex
                /\ chunk_metadata =
                      [k \in 0..(Len(cs) - 1) |->
                          LocalEntry(cs[k + 1], prof[cs[k + 1].document_id], k)]
                /\ document_registry =
                      [d \in Docs |->
                          [character_count |-> IF d = "d1" THEN Len(t1) ELSE Len(t2)]]
                /\ next_index = Len(cs)
                /\ search_call \in
                      (IF FAISS_AVAILABLE
                       THEN Requests({<<"A", "b">>}, [0..(Len(cs) - 1) -> Distances])
                       ELSE Requests(Queries, {<<>>}))
                /\ ELASTICSEARCH_AVAILABLE = FALSE
                /\ es = "None"
                /\ init_outcome = "none"
                /\ es_up = FALSE
                /\ es_index = "missing"
                /\ es_docs = <<>>
             \/ /\ variant = "es"
                /\ ELASTICSEARCH_AVAILABLE = TRUE
                /\ es_up \in BOOLEAN
                /\ \E ping \in PingResults :
                      /\ PingPossible(es_up, ping)
                      /\ LET c == ESConstruct(TRUE, "mapped", ping, "ok") IN
                         /\ es = c.es
                         /\ es_index = c.es_index
                         /\ init_outcome = c.init_outcome
                /\ es_docs =
                      [id \in {cs[i].id : i \in 1..Len(cs)} |->
                          LET i == CHOOSE j \in 1..Len(cs) : cs[j].id = id IN
                          ESSource(cs[i], embeddings[i], prof[cs[i].document_id])]
                /\ search_call \in
                      Requests({<<"A", "b">>},
                               IF es = "client" /\ es_up
                               THEN [{cs[i].id : i \in 1..Len(cs)} -> ESScores]
                               ELSE {<<>>})
                /\ FAISS_AVAILABLE = FALSE
                /\ index = NoIndex
                /\ chunk_metadata = <<>>
                /\ document_registry = <<>>
                /\ next_index = 0

SearchNext ==
    \/ LocalSearchSimilarChunks
    \/ ESSearchSimilarChunks

SearchSpec == SearchInit /\ [][SearchNext]_vars


\* =================================================================
\* ContextOptimizer (rag/integration.py)
\* A string of which only the length is read is represented by its
\* length; a context handed to compress_context by its sections, the
\* pieces context.split('\n\n') gives, each with its length and the
\* number of security keywords it contains.
\* =================================================================
\* context_limits and context_limits.get(model_role, 2000)
context_limits ==
    [ANALYSIS_AGENT |-> 3000, CODE_EXPERT |-> 2500,
     RESEARCH_SYNTHESIZER |-> 3500, REDTEAM_SPECIALIST |-> 1500]
ContextLimit(model_role) ==
    IF model_role \in DOMAIN context_limits THEN context_limits[model_role] ELSE 2000

\* the length of str(n) for an int n >= 0
RECURSIVE Digits(_)
Digits(n) == IF n < 10 THEN 1 ELSE 1 + Digits(n \div 10)

RECURSIVE SumSeq(_)
SumSeq(q) == IF q = <<>> THEN 0 ELSE Head(q) + SumSeq(Tail(q))

\* len(sep.join(parts)) for parts given by their lengths
JoinLen(lengths, sep) ==
    IF lengths = <<>> THEN 0 ELSE SumSeq(lengths) + sep * (Len(lengths) - 1)

\* len of source_info: "[Source: <source>]" and, when the chunk has
\* mitre_techniques, " [MITRE: <t1>, <t2>]"
SourceInfoLen(chunk) ==
    9 + Len(chunk.source) + 1
    + (IF chunk.mitre_techniques # <<>>
       THEN 9 + JoinLen(chunk.mitre_techniques, 2) + 1
       ELSE 0)

\* the loop of optimize_context over sorted_results; st holds
\* context_parts (their lengths), current_length and sources_used
RECURSIVE OptimizeLoop(_, _, _)
OptimizeLoop(st, sorted_results, context_limit) ==
    IF sorted_results = <<>> THEN st
    ELSE LET chunk == Head(sorted_results).chunk
             chunk_tokens == chunk.content_length \div 4
         IN
         IF st.current_length + chunk_tokens > context_limit THEN st
         ELSE OptimizeLoop(
                  [context_parts |-> Append(st.context_parts,
                                            SourceInfoLen(chunk) + 1 + chunk.content_length),
                   current_length |-> st.current_length + chunk_tokens,
                   sources_used |-> st.sources_used \cup {chunk.source}],
                  Tail(sorted_results), context_limit)

\* ContextOptimizer.optimize_context: the length of the returned string,
\* summary + "\n" + "\n\n" + "=" * 50 + "\n\n".join(context_parts)
optimize_context(retrieval_results, model_role) ==
    LET st == OptimizeLoop([context_parts |-> <<>>, current_length |-> 0,
                            sources_used |-> {}],
                           SortByCombined(retrieval_results),
                           ContextLimit(model_role))
        context == 2 + 50 + JoinLen(st.context_parts, 2)
        summary == 17 + Digits(Len(st.context_parts)) + 13
                   + Digits(Cardinality(st.sources_used)) + 11
                   + Digits(st.current_length) + 7
    IN [length |-> summary + 1 + context,
        chunks |-> Len(st.context_parts),
        current_length |-> st.current_length]

\* len(context) of a context given by its sections
ContextLen(sections) == JoinLen([i \in 1..Len(sections) |-> sections[i].length], 2)

\* "scored_sections.sort(key=lambda x: x[0], reverse=True)": stable
RECURSIVE InsertByScore(_, _)
InsertByScore(sorted, section) ==
    IF sorted = <<>> THEN <<section>>
    ELSE IF Head(sorted).score >= section.score
         THEN <<Head(sorted)>> \o InsertByScore(Tail(sorted), section)
         ELSE <<section>> \o sorted

RECURSIVE SortSectionsFrom(_, _)
SortSectionsFrom(sorted, rest) ==
    IF rest = <<>> THEN sorted
    ELSE SortSectionsFrom(InsertByScore(sorted, Head(rest)), Tail(rest))

\* the loop of compress_context over scored_sections; a part is the
\* length of what was appended and whether it is a truncated section
\* (section[:remaining] + "...")
RECURSIVE CompressLoop(_, _, _, _)
CompressLoop(compressed_parts, current_length, scored_sections, target_length) ==
    IF scored_sections = <<>> THEN compressed_parts
    ELSE LET section == Head(scored_sections) IN
         IF current_length + section.length <= target_length
         THEN CompressLoop(Append(compressed_parts,
                                  [length |-> section.length, truncated |-> FALSE]),
                           current_length + section.length,
                           Tail(scored_sections), target_length)
         ELSE LET remaining == target_length - current_length IN
              IF remaining > 100
              THEN Append(compressed_parts,
                          [length |-> Min(section.length, remaining) + 3,
                           truncated |-> TRUE])
              ELSE compressed_parts

\* ContextOptimizer.compress_context: the parts of the returned string
\* and its length
compress_context(sections, target_length) ==
    IF ContextLen(sections) <= target_length
    THEN [parts |-> [i \in 1..Len(sections) |->
                        [length |-> sections[i].length, truncated |-> FALSE]],
          length |-> ContextLen(sections)]
    ELSE LET compressed_parts ==
                 CompressLoop(<<>>, 0, SortSectionsFrom(<<>>, sections), target_length)
         IN [parts |-> compressed_parts,
             length |-> JoinLen([i \in 1..Len(compressed_parts) |->
                                    compressed_parts[i].length], 2)]

\* the sections of "\n\n---\n\n".join(context_parts), context_parts
\* being "[Source: <source>]\n<content>" of each result: the parts with
\* "---" between them
RECURSIVE QueryContextSections(_)
QueryContextSections(results) ==
    IF results = <<>> THEN <<>>
    ELSE LET chunk == Head(results).chunk
             part == [length |-> 9 + Len(chunk.source) + 1 + 1 + chunk.content_length,
                      score |-> chunk.keyword_hits]
         IN IF Tail(results) = <<>> THEN <<part>>
            ELSE <<part, [length |-> 3, score |-> 0]>> \o QueryContextSections(Tail(results))

\* StandaloneElasticsearchRAG.get_context_for_query, from the results of
\* self.search on: "No relevant context found." without results
get_context_for_query(results, max_length) ==
    IF results = <<>> THEN [parts |-> <<[length |-> 26, truncated |-> FALSE]>>, length |-> 26]
    ELSE compress_context(QueryContextSections(results), max_length)

\* ------------------------------------------------------------------
\* The ContextOptimizer specification
\* ------------------------------------------------------------------
MaxResults == 2          \* bound on the retrieval results handed over
MaxSections == 3         \* bound on the sections of a context

ModelRoles ==
    {"ANALYSIS_AGENT", "CODE_EXPERT", "RESEARCH_SYNTHESIZER", "REDTEAM_SPECIALIST",
     "other"}

\* chunks of retrieval results: the length of the content, the source,
\* the lengths of the mitre_techniques, the security keywords in the text
RankedChunks ==
    [content_length : {3, 4000, 6000}, source : {<<"s">>, <<"d", "b">>},
     mitre_techniques : {<<>>, <<5, 5>>}, keyword_hits : {0}]
FoundChunks ==
    [content_length : {30, 120, 300}, source : {<<"s">>, <<"d", "b">>},
     mitre_techniques : {<<>>}, keyword_hits : {0, 2}]

SeqsUpTo(S, n) == UNION {[1..k -> S] : k \in 0..n}

Sections == [length : {40, 150, 300}, score : {0, 2}]
TargetLengths == {120, 140, 200, 450}

ContextRequest(op, retrieval_results, model_role, sections, target_length) ==
    [op |-> op, done |-> FALSE, retrieval_results |-> retrieval_results,
     model_role |-> model_role, sections |-> sections,
     target_length |-> target_length, parts |-> <<>>, length |-> 0]

ContextInit ==
    /\ ChunkerIdle
    /\ NoIndexConstructed
    /\ search_call = NoSearch
    /\ NoUtilities
    /\ \/ \E results \in SeqsUpTo([chunk : RankedChunks, combined_score : {500, 700}],
                                   MaxResults),
             model_role \in ModelRoles :
             context_call = ContextRequest("optimize_context", results, model_role,
                                           <<>>, 0)
       \/ \E sections \in SeqsUpTo(Sections, MaxSections) \ {<<>>},
             target_length \in TargetLengths :
             context_call = ContextRequest("compress_context", <<>>, "none",
                                           sections, target_length)
       \/ \E results \in SeqsUpTo([chunk : FoundChunks, combined_score : {500}],
                                   MaxResults),
             max_length \in TargetLengths :
             context_call = ContextRequest("get_context_for_query", results, "none",
                                           <<>>, max_length)

OptimizeContext ==
    /\ context_call.op = "optimize_context"
    /\ ~context_call.done
    /\ LET out == optimize_context(context_call.retrieval_results,
                                   context_call.model_role)
       IN context_call' =
              [context_call EXCEPT !.done = TRUE, !.length = out.length,
                                   !.parts = [i \in 1..out.chunks |->
                                                 [length |-> 0, truncated |-> FALSE]]]
    /\ UNCHANGED <<cvars, dbvars, search_call, uvars>>

CompressContext ==
    /\ context_call.op = "compress_context"
    /\ ~context_call.done
    /\ LET out == compress_context(context_call.sections, context_call.target_length)
       IN context_call' =
              [context_call EXCEPT !.done = TRUE, !.length = out.length,
                                   !.parts = out.parts]
    /\ UNCHANGED <<cvars, dbvars, search_call, uvars>>

GetContextForQuery ==
    /\ context_call.op = "get_context_for_query"
    /\ ~context_call.done
    /\ LET out == get_context_for_query(context_call.retrieval_results,
                                        context_call.target_length)
       IN context_call' =
              [context_call EXCEPT !.done = TRUE, !.length = out.length,
                                   !.parts = out.parts,
                                   !.sections =
                                       QueryContextSections(context_call.retrieval_results)]
    /\ UNCHANGED <<cvars, dbvars, search_call, uvars>>

ContextNext ==
    \/ OptimizeContext
    \/ CompressContext
    \/ GetContextForQuery

ContextSpec == ContextInit /\ [][ContextNext]_vars


\* =================================================================
\* Claims on the index
\* =================================================================
\* the chunks the constructed variant holds, by storage key
StoredKeys == IF variant = "local" THEN DOMAIN chunk_metadata ELSE DOMAIN es_docs
StoredAt(k) == IF variant = "local" THEN chunk_metadata[k] ELSE es_docs[k]

\* get_chunk_count / total_chunks
ChunkCount == Cardinality(StoredKeys)

KeysOf(d) == {k \in StoredKeys : StoredAt(k).document_id = d}

\* a stored chunk as (id, position, text)
Triple(c) == <<c.chunk_id, c.chunk_index, c.content>>
StoredChunksOf(d) == {Triple(StoredAt(k)) : k \in KeysOf(d)}
NewChunksOf(d, text) ==
    LET cs == create_chunks(d, text) IN
    {<<cs[i].id, cs[i].chunk_index, cs[i].content>> : i \in 1..Len(cs)}

\* the last call ingested a document and reported success
Ingested == last.op = "add_document" /\ last.count > 0

\* C3: once a document has been ingested, ingesting the same (title,
\* source, content) again leaves the index, local or Elasticsearch, with
\* the chunk count it had after the first ingestion.
C3_IdempotentReingestion ==
    [][(/\ Ingested
        /\ last'.op = "add_document"
        /\ last'.doc = last.doc
        /\ last'.text = last.text)
       => ChunkCount' = ChunkCount]_vars

\* C4: re-ingesting a document whose id is already indexed, with any new
\* content, replaces it: the chunks stored for the document_id are exactly
\* the chunks of the new version.
C4_ReingestReplaces ==
    [][\A d \in Docs, text \in DocContents :
          (/\ KeysOf(d) # {}
           /\ last' # last
           /\ Ingested'
           /\ last'.doc = d
           /\ last'.text = text)
          => StoredChunksOf(d)' = NewChunksOf(d, text)]_vars

\* C5: for each document_id the chunk_index values of the persisted chunks
\* are exactly 0..n-1, each once.
C5_ChunkIndexContiguous ==
    \A d \in Docs :
        \A i \in 0..(Cardinality(KeysOf(d)) - 1) :
            Cardinality({k \in KeysOf(d) : StoredAt(k).chunk_index = i}) = 1

\* C6: both variants have delete-by-document_id, and after it succeeds no
\* chunk of that document_id is stored.
C6_DeleteByDocumentId ==
    last.op = "delete_document" =>
        /\ last.ret \in {"True", "False"}
        /\ last.ret = "True" => KeysOf(last.doc) = {}

\* the embedding persisted with the chunk stored under key k: the vector at
\* position k of the FAISS index, the content_vector of the ES document
HasEmbedding(k) ==
    IF variant = "local"
    THEN ~index.none /\ k + 1 <= Len(index.vectors)
    ELSE "content_vector" \in DOMAIN es_docs[k]
EmbeddingAt(k) == IF variant = "local" THEN index.vectors[k + 1] ELSE es_docs[k].content_vector

\* C7: every persisted chunk is stored with a non-null embedding of
\* dimension embedding_dim.
C7_PersistedChunkHasEmbedding ==
    \A k \in StoredKeys : HasEmbedding(k) /\ EmbeddingAt(k).dim = embedding_dim

\* C8: a write failure of one chunk is fatal for that chunk only:
\* add_document writes every other chunk and returns the number written.
C8_ChunkFailureIsLocal ==
    (last.op = "add_document" /\ (last.contacted \/ variant = "local")) =>
        LET cs == create_chunks(last.doc, last.text)
            written == {i \in 1..Len(cs) : cs[i].chunk_index \notin last.failed}
        IN /\ \A i \in written :
                <<cs[i].id, cs[i].chunk_index, cs[i].content>> \in StoredChunksOf(last.doc)
           /\ last.count = Cardinality(written)

ESCalls == {"add_document", "search_similar_chunks", "delete_document", "get_statistics"}

\* C9: the distributed index takes reads and writes only when ready: if
\* the connection check or the index setup failed in __init__, no call
\* sends anything to the backend.
C9_OnlyReadyContactsBackend ==
    (variant = "es" /\ last.op \in ESCalls /\ init_outcome # "ready") => ~last.contacted

\* an API call of the distributed index is made in this step
ESCall ==
    \/ \E d \in Docs, text \in DocContents, rejected \in SUBSET (0..MaxChunks - 1) :
          ESAddDocument(d, text, rejected)
    \/ \E d \in Docs : ESDeleteDocument(d)
    \/ \E hits \in SUBSET (Docs \X (0..MaxChunks - 1)) : ESSearch(hits)
    \/ ESGetStatistics

\* C10: a call that fails with a connection failure makes the index
\* unavailable (es is None), and the calls after it do not contact the
\* backend until the index is constructed again.
C10_ConnectionFailureMakesUnavailable ==
    [][/\ (last'.op \in ESCalls /\ last'.conn_error) => es' = "None"
       /\ (last.op \in ESCalls /\ last.conn_error /\ ESCall) => ~last'.contacted]_vars

\* StandaloneElasticsearchRAG.add_document_from_text: success is
\* "chunks_added > 0"
add_document_from_text(chunks_added) == chunks_added > 0

\* the last call of the distributed index met an unavailable backend: es
\* is None, the request found no server, the server refused an action, or
\* the index a read or delete addresses does not exist
BackendFailed ==
    \/ es = "None"
    \/ last.conn_error
    \/ last.failed # {}
    \/ (last.op # "add_document" /\ last.contacted /\ es_index = "missing")

SearchReturned == search_call.op = "search_similar_chunks"

\* the order of chunk ids "<document id>_chunk_<nnnn>"
IdBefore(x, y) ==
    \/ x[1] = "d1" /\ y[1] = "d2"
    \/ x[1] = y[1] /\ x[2] < y[2]

\* the total order of the results: combined_score descending, then
\* similarity_score descending, then chunk id
RankedBefore(x, y) ==
    \/ x.combined_score > y.combined_score
    \/ /\ x.combined_score = y.combined_score
       /\ x.similarity_score > y.similarity_score
    \/ /\ x.combined_score = y.combined_score
       /\ x.similarity_score = y.similarity_score
       /\ IdBefore(x.chunk_id, y.chunk_id)

Unranked(r) == [r EXCEPT !.rank = 0]

\* C12: the returned list is in the total order (combined_score, then
\* similarity_score, then chunk id) and holds the first top_k of the
\* candidates in that order, so that it depends on the set of candidates
\* only and not on the order the backend delivered them in.
C12_TotalOrderOfResults ==
    SearchReturned =>
        LET rs == search_call.results
            returned == {Unranked(rs[i]) : i \in 1..Len(rs)}
        IN /\ \A i, j \in 1..Len(rs) : i < j => RankedBefore(rs[i], rs[j])
           /\ \A c \in SeqToSet(search_call.found) \ returned :
                 \A i \in 1..Len(rs) : RankedBefore(rs[i], c)

\* C13: a search returns K <= top_k results and the i-th of them has
\* rank i: the ranks are 1..K, given after the cut to top_k, none is 0.
C13_RanksContiguous ==
    SearchReturned =>
        LET rs == search_call.results IN
        /\ Len(rs) <= search_call.top_k
        /\ \A i \in 1..Len(rs) : rs[i].rank = i

\* a search that found more candidates than top_k and returned top_k of them
C13_Witness ==
    /\ SearchReturned
    /\ search_call.top_k = 2
    /\ Len(search_call.found) > 2
    /\ Len(search_call.results) = 2
    /\ search_call.results[2].rank = 2

\* C14: the minimum similarity threshold, the caller's override or else
\* the configured default, is applied on every search path before ranking
\* and truncation: no returned result has a similarity_score below it.
C14_ThresholdOnEveryPath ==
    SearchReturned =>
        \A i \in 1..Len(search_call.results) :
            search_call.results[i].similarity_score
                >= EffectiveThreshold(search_call.similarity_threshold)

\* the stored chunks, by key, and the similarity of stored chunk k to the
\* query of the last search: FAISS distance converted, word overlap,
\* cosine similarity
SearchedKeys == IF variant = "local" THEN DOMAIN chunk_metadata ELSE DOMAIN es_docs
SearchedAt(k) == IF variant = "local" THEN chunk_metadata[k] ELSE es_docs[k]
StoredSimilarity(k) ==
    IF search_call.path = "ann" THEN (200 - search_call.backend[k]) \div 2
    ELSE IF search_call.path = "fallback"
    THEN LET query_words == SplitWords(Lower(search_call.query)) IN
         IF query_words = {} THEN 0
         ELSE (100 * Cardinality(query_words
                                 \cap SplitWords(Lower(chunk_metadata[k].content))))
                  \div Cardinality(query_words)
    ELSE search_call.backend[k].cos

\* the stored chunks that satisfy the filter and the threshold of the last search
Satisfying ==
    {k \in SearchedKeys :
        /\ matches_filter(SearchedAt(k), search_call.filter_metadata)
        /\ StoredSimilarity(k) >= EffectiveThreshold(search_call.similarity_threshold)}

\* C15: metadata filters are applied before the cut to top_k in both
\* variants: when at least top_k stored chunks satisfy the filter and the
\* threshold, a filtered search returns exactly top_k results and all of
\* them satisfy the filter.
C15_FilterBeforeTopK ==
    (/\ SearchReturned
     /\ search_call.answered
     /\ ~search_call.filter_metadata.none
     /\ Cardinality(Satisfying) >= search_call.top_k)
    => /\ Len(search_call.results) = search_call.top_k
       /\ \A i \in 1..Len(search_call.results) :
             matches_filter(search_call.results[i], search_call.filter_metadata)

\* C16: every RetrievalResult of every search path has
\* combined_score = 0.5 similarity + 0.3 authority + 0.2 temporal.
C16_CombinedScoreWeights ==
    SearchReturned =>
        \A i \in 1..Len(search_call.results) :
            LET r == search_call.results[i] IN
            r.combined_score
                = 5 * r.similarity_score + 3 * r.authority_score + 2 * r.temporal_score

\* among the results of one search, a result whose authority_score and
\* temporal_score are at least another's, at the same similarity_score,
\* has a combined_score at least as high
ScoreMonotone ==
    \A i, j \in 1..Len(search_call.results) :
        LET x == search_call.results[i]
            y == search_call.results[j]
        IN (/\ x.similarity_score = y.similarity_score
            /\ x.authority_score >= y.authority_score
            /\ x.temporal_score >= y.temporal_score)
           => x.combined_score >= y.combined_score

\* of two results whose similarity_score differs by more than gap, the one
\* of higher similarity is ranked first
SimilarityDecides(gap) ==
    \A i, j \in 1..Len(search_call.results) :
        LET x == search_call.results[i]
            y == search_call.results[j]
        IN x.similarity_score - y.similarity_score > gap => x.rank < y.rank

\* C17 (as claimed): raising authority_score or temporal_score never
\* lowers combined_score, and of two candidates whose similarity_score
\* differs by more than 0.5 the one of higher similarity is ranked first.
C17_ScoreMonotonicity ==
    SearchReturned => ScoreMonotone /\ SimilarityDecides(50)

\* C17 (amended): raising authority_score or temporal_score never lowers
\* combined_score, and of two candidates whose similarity_score differs by
\* more than 0.8 the one of higher similarity is ranked first.
C17_ScoreMonotonicityAmended ==
    SearchReturned => ScoreMonotone /\ SimilarityDecides(80)

\* a search returned two results whose similarity differs by more than
\* 0.8, the less similar one of higher authority and temporal score
C17_Witness ==
    /\ SearchReturned
    /\ \E i, j \in 1..Len(search_call.results) :
          LET x == search_call.results[i]
              y == search_call.results[j]
          IN /\ x.similarity_score - y.similarity_score > 80
             /\ y.authority_score > x.authority_score
             /\ y.temporal_score > x.temporal_score

\* C18: the similarity_score of every returned result lies in [0, 1],
\* whatever score or distance the backend reports.
C18_SimilarityInUnitInterval ==
    SearchReturned =>
        \A i \in 1..Len(search_call.results) :
            /\ search_call.results[i].similarity_score >= 0
            /\ search_call.results[i].similarity_score <= 100

\* =================================================================
\* Claims on the ContextOptimizer
\* =================================================================
\* the token estimate of optimize_context, 4 characters per token
EstimatedTokens(length) == length \div 4

\* C19: for any retrieval results and any model role, the estimated token
\* count of the string optimize_context returns, all of it counted, is at
\* most the context budget of the role.
C19_OptimizeContextWithinBudget ==
    (context_call.op = "optimize_context" /\ context_call.done) =>
        EstimatedTokens(context_call.length) <= ContextLimit(context_call.model_role)

\* C20: for any context and target_length, compress_context returns a
\* string of length at most target_length plus the 3 characters of "...".
C20_CompressContextWithinTarget ==
    (context_call.op \in {"compress_context", "get_context_for_query"}
     /\ context_call.done /\ context_call.sections # <<>>)
    => context_call.length <= context_call.target_length + 3

\* =================================================================
\* Further claims on the chunker
\* =================================================================
\* the content has at least one non-whitespace character
HasNonWhitespace(text) == \E i \in 1..Len(text) : text[i] \notin Whitespace

\* C25: for a content with at least one non-whitespace character
\* smart_chunk_text returns a non-empty list, and no returned chunk is
\* empty or whitespace-only.
C25_ChunksNonEmpty ==
    pc = "done" =>
        /\ HasNonWhitespace(content) => chunks # <<>>
        /\ \A i \in 1..Len(chunks) : HasNonWhitespace(chunks[i])

\* =================================================================
\* EnhancedEmbeddingManager: single and batch embedding, the cache
\* =================================================================
MaxBatch == 2            \* most texts handed to one embed_batch call

EmbedTexts == {"a", "b", "c"}

\* get_text_hash: the first 16 hex digits of the SHA-256 of the text; no two
\* of the texts considered share a hash
get_text_hash(text) == <<"sha256", text>>

\* self.model.encode(text) as an array of embedding_dim floats
Encode(text) == [dim |-> embedding_dim, of |-> text]

\* np.random.random(self.embedding_dim)
RandomEmbedding == [dim |-> embedding_dim, of |-> "random"]

\* embed_text on the cache: the returned embedding, the cache afterwards and
\* the texts handed to self.model.encode
embed_text(cache, text, use_cache) ==
    LET text_hash == get_text_hash(text) IN
    IF model = "None"
    THEN [embedding |-> RandomEmbedding, cache |-> cache, encoded |-> {}]
    ELSE IF use_cache /\ text_hash \in DOMAIN cache
    THEN [embedding |-> cache[text_hash], cache |-> cache, encoded |-> {}]
    ELSE [embedding |-> Encode(text),
          cache |-> IF use_cache THEN Put(cache, text_hash, Encode(text)) ELSE cache,
          encoded |-> {text}]

\* the texts embed_batch hands to self.model.encode: every text of every
\* batch, when there is a model
BatchEncoded(texts) == IF model = "None" THEN {} ELSE SeqToSet(texts)

EmbedCall(op, texts, use_cache, returned, encoded, prior, embedded) ==
    [op |-> op, texts |-> texts, use_cache |-> use_cache, returned |-> returned,
     encoded |-> encoded, prior |-> prior, embedded |-> embedded]

\* no vector database is constructed next to the embedding manager
NoDatabase ==
    /\ variant = "none"
    /\ FAISS_AVAILABLE = FALSE
    /\ index = NoIndex
    /\ chunk_metadata = <<>>
    /\ document_registry = <<>>
    /\ next_index = 0
    /\ ELASTICSEARCH_AVAILABLE = FALSE
    /\ es = "None"
    /\ init_outcome = "none"
    /\ es_up = FALSE
    /\ es_index = "missing"
    /\ es_docs = <<>>
    /\ last = [op |-> "none"]

\* __init__: the model is loaded when sentence-transformers is installed;
\* load_embedding_cache reads the cache file an earlier run saved, if any
EmbedInit ==
    /\ ChunkerIdle
    /\ NoDatabase
    /\ search_call = NoSearch
    /\ context_call = NoContext
    /\ IdleExcept({"embedder"})
    /\ model \in {"model", "None"}
    /\ embedding_cache \in
          {<<>>} \cup {Put(<<>>, get_text_hash(t), Encode(t)) : t \in EmbedTexts}
    /\ embed_call = EmbedCall("__init__", <<>>, FALSE, <<>>, {}, {}, {})

\* embed_text(text, use_cache)
EmbedText(text, use_cache) ==
    /\ LET out == embed_text(embedding_cache, text, use_cache) IN
       /\ embedding_cache' = out.cache
       /\ embed_call' =
             EmbedCall("embed_text", <<text>>, use_cache, <<out.embedding>>,
                       out.encoded, embed_call.embedded,
                       IF use_cache /\ model # "None"
                       THEN embed_call.embedded \cup {text}
                       ELSE embed_call.embedded)
    /\ UNCHANGED <<cvars, dbvars, search_call, context_call, metadata_call,
                   file_call, history, history_size, repeat_threshold, loop_call,
                   disk, ingestion>>

\* embed_batch(texts): the cache is neither read nor written
EmbedBatch(texts) ==
    /\ embed_call' =
          EmbedCall("embed_batch", texts, FALSE, embed_batch(texts),
                    BatchEncoded(texts), embed_call.embedded,
                    IF model # "None"
                    THEN embed_call.embedded \cup SeqToSet(texts)
                    ELSE embed_call.embedded)
    /\ UNCHANGED <<cvars, dbvars, search_call, context_call, embedding_cache,
                   metadata_call, file_call, history, history_size,
                   repeat_threshold, loop_call, disk, ingestion>>

EmbedNext ==
    \/ \E text \in EmbedTexts, use_cache \in BOOLEAN : EmbedText(text, use_cache)
    \/ \E texts \in SeqsUpTo(EmbedTexts, MaxBatch) : EmbedBatch(texts)

EmbedSpec == EmbedInit /\ [][EmbedNext]_vars

\* ------------------------------------ claims on the embedding manager
\* the call is a request through embed_text with caching on or through
\* embed_batch, made while the model is available
CachedRequest ==
    /\ model # "None"
    /\ \/ embed_call.op = "embed_text" /\ embed_call.use_cache
       \/ embed_call.op = "embed_batch"

\* C21: once a text has been embedded (by embed_text with caching on, or by
\* embed_batch), a later request for the same text through either
\* operation is a cache hit: the model is not invoked for it and the
\* vector returned is the stored one.
C21_CacheServesSingleAndBatch ==
    CachedRequest =>
        \A i \in 1..Len(embed_call.texts) :
            embed_call.texts[i] \in embed_call.prior =>
                /\ embed_call.texts[i] \notin embed_call.encoded
                /\ get_text_hash(embed_call.texts[i]) \in DOMAIN embedding_cache
                /\ embed_call.returned[i] =
                       embedding_cache[get_text_hash(embed_call.texts[i])]

\* C22: embed_text and embed_batch never return a substitute vector: every
\* vector returned for a text is the model's encoding of that text.
C22_NoSubstituteVector ==
    embed_call.op \in {"embed_text", "embed_batch"} =>
        \A i \in 1..Len(embed_call.returned) :
            embed_call.returned[i] # RandomEmbedding

\* =================================================================
\* DocumentProcessor.extract_metadata
\* =================================================================
MaxWords == 2            \* most words of a content
MaxClock == 2            \* last reading of time.time() considered
MaxExtractions == 2      \* extract_metadata calls made on one content

\* the words a content is made of; a content is its words joined by one
\* space
MetadataWords ==
    {"T1003", "t1003", "CVE-2020-1234", "https://example.com", "MITRE", "nist", "word"}

\* len(word)
WordLen(w) ==
    CASE w = "T1003" -> 5
      [] w = "t1003" -> 5
      [] w = "CVE-2020-1234" -> 13
      [] w = "https://example.com" -> 19
      [] w = "MITRE" -> 5
      [] w = "nist" -> 4
      [] OTHER -> 4

\* technique_pattern.findall, case-insensitive: the matched text as written
TechniquesIn(w) == IF w \in {"T1003", "t1003"} THEN {w} ELSE {}

\* cve_pattern.findall and url_pattern.findall
CvesIn(w) == IF w = "CVE-2020-1234" THEN {w} ELSE {}
UrlsIn(w) == IF w = "https://example.com" THEN {w} ELSE {}

\* framework_patterns, in the order of the dict; the patterns are
\* case-insensitive
framework_patterns ==
    << [framework |-> "MITRE_ATTACK", words |-> {"MITRE"}],
       [framework |-> "NIST", words |-> {"nist"}],
       [framework |-> "OWASP", words |-> {}],
       [framework |-> "CIS", words |-> {}] >>

RECURSIVE FrameworksFrom(_, _)
FrameworksFrom(patterns, words) ==
    IF patterns = <<>> THEN <<>>
    ELSE (IF Head(patterns).words \cap words # {}
          THEN <<Head(patterns).framework>> ELSE <<>>)
         \o FrameworksFrom(Tail(patterns), words)

\* len(content) of the words joined by one space
ContentLength(words) ==
    IF words = <<>> THEN 0
    ELSE SumSeq([i \in 1..Len(words) |-> WordLen(words[i])]) + Len(words) - 1

\* extract_metadata(content, source) called when time.time() reads now;
\* list(set(...)) of the same matches is the same list within one process
\* and is kept as the set
extract_metadata(words, source, now) ==
    [word_count |-> Len(words),
     character_count |-> ContentLength(words),
     source |-> source,
     extracted_at |-> now,
     mitre_techniques |-> UNION {TechniquesIn(words[i]) : i \in 1..Len(words)},
     security_frameworks |-> FrameworksFrom(framework_patterns, SeqToSet(words)),
     cves |-> UNION {CvesIn(words[i]) : i \in 1..Len(words)},
     referenced_urls |-> UNION {UrlsIn(words[i]) : i \in 1..Len(words)}]

\* a DocumentProcessor, a content and a source; the clock reads 0
MetadataInit ==
    /\ content = <<>>
    /\ chunk_size \in 1..MaxChunkSize
    /\ chunks = <<>>
    /\ pc = "idle"
    /\ NoIndexConstructed
    /\ search_call = NoSearch
    /\ context_call = NoContext
    /\ IdleExcept({"processor"})
    /\ \E words \in SeqsUpTo(MetadataWords, MaxWords), source \in {"a.md", "b.md"} :
          metadata_call = [op |-> "extract_metadata", words |-> words,
                           source |-> source, now |-> 0, returned |-> <<>>,
                           processor |-> chunk_size]

\* one call of extract_metadata on the content; nothing of the processor is
\* assigned
ExtractMetadata ==
    /\ metadata_call.op = "extract_metadata"
    /\ Len(metadata_call.returned) < MaxExtractions
    /\ metadata_call' =
          [metadata_call EXCEPT
              !.returned = Append(@, extract_metadata(metadata_call.words,
                                                      metadata_call.source,
                                                      metadata_call.now)),
              !.processor = chunk_size]
    /\ UNCHANGED <<cvars, dbvars, search_call, context_call, embedding_cache,
                   embed_call, file_call, history, history_size, repeat_threshold,
                   loop_call, disk, ingestion>>

\* time passes between two calls
ClockTick ==
    /\ metadata_call.op = "extract_metadata"
    /\ metadata_call.now < MaxClock
    /\ metadata_call' = [metadata_call EXCEPT !.now = @ + 1]
    /\ UNCHANGED <<cvars, dbvars, search_call, context_call, embedding_cache,
                   embed_call, file_call, history, history_size, repeat_threshold,
                   loop_call, disk, ingestion>>

MetadataNext ==
    \/ ExtractMetadata
    \/ ClockTick

MetadataSpec == MetadataInit /\ [][MetadataNext]_vars

\* --------------------------------------- claims on extract_metadata
\* C23: two calls of extract_metadata with the same (content, source)
\* return equal metadata maps, and they change no state of the
\* DocumentProcessor.
C23_ExtractMetadataIdempotent ==
    metadata_call.op = "extract_metadata" =>
        /\ metadata_call.processor = chunk_size
        /\ \A i, j \in 1..Len(metadata_call.returned) :
              metadata_call.returned[i] = metadata_call.returned[j]

\* =================================================================
\* StandaloneElasticsearchRAG.add_document_from_file
\* =================================================================
MaxFiles == 2            \* most files of one batch

Suffixes == {".pdf", ".md", ".html", ".txt", ".bin"}

\* a file path as the call meets it: whether it exists, its suffix, whether
\* open(path, 'r', encoding='utf-8') and read() succeed (it is a readable
\* file of valid UTF-8), whether its content parses (PyPDF2 / BeautifulSoup),
\* and what vector_db.add_document returns for the document made of it
Files ==
    {f \in [exists : BOOLEAN, suffix : Suffixes, readable : BOOLEAN,
            parseable : BOOLEAN, chunks_added : {0, 2}] :
        /\ ~f.exists => ~f.readable
        /\ ~f.readable => ~f.parseable /\ f.chunks_added = 0}

\* process_pdf: None without PyPDF2, None when reading or parsing raises
process_pdf(file, pdf_support) ==
    IF ~pdf_support THEN "None"
    ELSE IF file.readable /\ file.parseable THEN "Document" ELSE "None"

\* process_html on content already read: None without BeautifulSoup, None
\* when parsing raises
process_html(file, html_support) ==
    IF ~html_support THEN "None"
    ELSE IF file.parseable THEN "Document" ELSE "None"

\* add_document_from_file: "True", "False", or "raised" when an exception
\* leaves the call
add_document_from_file(file, pdf_support, html_support) ==
    LET added == IF file.chunks_added > 0 THEN "True" ELSE "False" IN
    IF ~file.exists THEN "False"
    ELSE CASE file.suffix = ".pdf" ->
                 IF process_pdf(file, pdf_support) = "None" THEN "False" ELSE added
           [] file.suffix = ".md" ->
                 IF ~file.readable THEN "raised" ELSE added
           [] file.suffix = ".html" ->
                 IF ~file.readable THEN "raised"
                 ELSE IF process_html(file, html_support) = "None" THEN "False"
                 ELSE added
           [] file.suffix = ".txt" ->
                 IF ~file.readable THEN "raised" ELSE added
           [] OTHER -> "False"

\* a caller about to ingest a batch of files, one call per file
FileInit ==
    /\ ChunkerIdle
    /\ NoIndexConstructed
    /\ search_call = NoSearch
    /\ context_call = NoContext
    /\ IdleExcept({"files"})
    /\ \E files \in SeqsUpTo(Files, MaxFiles) \ {<<>>},
          pdf_support \in BOOLEAN, html_support \in BOOLEAN :
          file_call = [op |-> "add_document_from_file", files |-> files,
                       PDF_SUPPORT |-> pdf_support, HTML_SUPPORT |-> html_support,
                       returned |-> <<>>, raised |-> FALSE]

\* the call for the next file of the batch; an exception that leaves the
\* call ends the caller's loop
AddDocumentFromFile ==
    /\ file_call.op = "add_document_from_file"
    /\ ~file_call.raised
    /\ Len(file_call.returned) < Len(file_call.files)
    /\ LET file == file_call.files[Len(file_call.returned) + 1]
           out == add_document_from_file(file, file_call.PDF_SUPPORT,
                                         file_call.HTML_SUPPORT)
       IN file_call' =
              IF out = "raised"
              THEN [file_call EXCEPT !.raised = TRUE]
              ELSE [file_call EXCEPT !.returned = Append(@, out)]
    /\ UNCHANGED <<cvars, dbvars, search_call, context_call, embedding_cache,
                   embed_call, metadata_call, history, history_size,
                   repeat_threshold, loop_call, disk, ingestion>>

FileNext == AddDocumentFromFile

FileSpec == FileInit /\ [][FileNext]_vars

\* ------------------------------------ claims on add_document_from_file
\* the file cannot be ingested: it is missing, of an unsupported type,
\* unreadable or unparseable
FailingFile(file) ==
    \/ ~file.exists
    \/ file.suffix = ".bin"
    \/ ~file.readable
    \/ file.suffix \in {".pdf", ".html"} /\ ~file.parseable

\* C24: a failure on one file is contained to that file:
\* add_document_from_file returns False for it and never raises, so the
\* caller of a batch proceeds to the next file.
C24_FileFailureContained ==
    file_call.op = "add_document_from_file" =>
        /\ ~file_call.raised
        /\ \A i \in 1..Len(file_call.returned) :
              FailingFile(file_call.files[i]) => file_call.returned[i] = "False"

\* =================================================================
\* LoopDetector
\* =================================================================
MaxHistorySize == 2      \* largest history_size constructed with
MaxRepeatThreshold == 2  \* largest repeat_threshold constructed with
MaxAdds == 4             \* add_item calls made on one detector

Items == {"x", "y"}

\* a detector that would pop the newest item instead of the oldest
add_item_PopNewest(h, size, item) ==
    LET appended == Append(h, item) IN
    IF Len(appended) > size THEN SubSeq(appended, 1, Len(appended) - 1) ELSE appended

\* add_item: append, then pop(0) when the list is longer than history_size
add_item(h, size, item) ==
    LET appended == Append(h, item) IN
    IF Len(appended) > size THEN Tail(appended) ELSE appended

\* list.count(item)
RECURSIVE Count(_, _)
Count(h, item) ==
    IF h = <<>> THEN 0
    ELSE (IF Head(h) = item THEN 1 ELSE 0) + Count(Tail(h), item)

\* a detector that would need more than repeat_threshold occurrences
is_looping_Strict(h, threshold, item) == Count(h, item) > threshold

\* is_looping
is_looping(h, threshold, item) == Count(h, item) >= threshold

\* get_recent_history: a copy of the list
get_recent_history(h) == h

LoopCall(op, item, added, before, looping, recent) ==
    [op |-> op, item |-> item, added |-> added, before |-> before,
     looping |-> looping, recent |-> recent]

\* LoopDetector(history_size, repeat_threshold)
LoopInit ==
    /\ ChunkerIdle
    /\ NoIndexConstructed
    /\ search_call = NoSearch
    /\ context_call = NoContext
    /\ IdleExcept({"detector"})
    /\ history_size \in 0..MaxHistorySize
    /\ repeat_threshold \in 0..MaxRepeatThreshold
    /\ history = <<>>
    /\ loop_call = LoopCall("__init__", "", <<>>, <<>>, FALSE, <<>>)

AddItem(item) ==
    /\ loop_call.op # "none"
    /\ Len(loop_call.added) < MaxAdds
    /\ history' = add_item(history, history_size, item)
    /\ loop_call' = LoopCall("add_item", item, Append(loop_call.added, item),
                             history, FALSE, <<>>)
    /\ UNCHANGED <<cvars, dbvars, search_call, context_call, embedding_cache,
                   embed_call, metadata_call, file_call, history_size,
                   repeat_threshold, disk, ingestion>>

IsLooping(item) ==
    /\ loop_call.op # "none"
    /\ loop_call' = LoopCall("is_looping", item, loop_call.added, history,
                             is_looping(history, repeat_threshold, item), <<>>)
    /\ UNCHANGED <<cvars, dbvars, search_call, context_call, embedding_cache,
                   embed_call, metadata_call, file_call, history, history_size,
                   repeat_threshold, disk, ingestion>>

GetRecentHistory ==
    /\ loop_call.op # "none"
    /\ loop_call' = LoopCall("get_recent_history", "", loop_call.added, history,
                             FALSE, get_recent_history(history))
    /\ UNCHANGED <<cvars, dbvars, search_call, context_call, embedding_cache,
                   embed_call, metadata_call, file_call, history, history_size,
                   repeat_threshold, disk, ingestion>>

LoopNext ==
    \/ \E item \in Items : AddItem(item)
    \/ \E item \in Items : IsLooping(item)
    \/ GetRecentHistory

LoopSpec == LoopInit /\ [][LoopNext]_vars

\* ------------------------------------------ claims on the LoopDetector
\* the last min(n, history_size) of the n items added, in insertion order
Window ==
    LET n == Len(loop_call.added)
        k == Min(n, history_size)
    IN SubSeq(loop_call.added, n - k + 1, n)

\* C26: after any sequence of add_item calls get_recent_history returns
\* exactly the last min(n, history_size) items added, in insertion order:
\* its length never exceeds history_size and the oldest item is evicted.
C26_BoundedFifoWindow ==
    loop_call.op # "none" =>
        /\ history = Window
        /\ Len(history) <= history_size
        /\ loop_call.op = "get_recent_history" => loop_call.recent = Window

\* get_recent_history answered after an item was evicted from a window
\* that keeps at least one item
C26_Witness ==
    /\ loop_call.op = "get_recent_history"
    /\ history_size >= 1
    /\ Len(loop_call.added) > history_size
    /\ loop_call.added[1] # loop_call.added[Len(loop_call.added)]
    /\ loop_call.recent = Window

\* C27: is_looping(x) is true exactly when x occurs at least
\* repeat_threshold times among the items in the history window (evicted
\* occurrences do not count), and is_looping does not change the history.
C27_IsLoopingCountsWindow ==
    loop_call.op = "is_looping" =>
        /\ loop_call.looping <=> (Count(Window, loop_call.item) >= repeat_threshold)
        /\ history = loop_call.before

\* is_looping answered False for an item added repeat_threshold times of
\* which one occurrence was evicted
C27_Witness ==
    /\ loop_call.op = "is_looping"
    /\ repeat_threshold >= 1
    /\ history_size >= 1
    /\ ~loop_call.looping
    /\ Count(loop_call.added, loop_call.item) >= repeat_threshold
    /\ Count(Window, loop_call.item) = repeat_threshold - 1

\* =================================================================
\* Further claims on the ContextOptimizer
\* =================================================================
\* the paragraphs of the compressed context in priority order
Prioritised == SortSectionsFrom(<<>>, context_call.sections)

\* the characters of the first k paragraphs in priority order
TakenLength(k) == SumSeq([i \in 1..k |-> Prioritised[i].length])

\* the number of paragraphs that fit before the first one that does not
FitCount ==
    CHOOSE k \in 0..Len(Prioritised) :
        /\ TakenLength(k) <= context_call.target_length
        /\ k < Len(Prioritised) => TakenLength(k + 1) > context_call.target_length
        /\ \A j \in 0..k : TakenLength(j) <= context_call.target_length

\* compress_context had to compress: the context is longer than the target
Compressed ==
    /\ context_call.op = "compress_context"
    /\ context_call.done
    /\ ContextLen(context_call.sections) > context_call.target_length

\* C28: when the next paragraph in priority order does not fit the
\* remaining budget, it is truncated to the remaining budget and appended
\* with the ellipsis marker if and only if at least 100 characters remain;
\* with fewer than 100 it is dropped; in both cases no further paragraph
\* is added.
C28_TruncateIffHundredRemain ==
    (Compressed /\ FitCount < Len(Prioritised)) =>
        LET k == FitCount
            remaining == context_call.target_length - TakenLength(k)
            parts == context_call.parts
        IN
        /\ \A i \in 1..k : i <= Len(parts) /\ ~parts[i].truncated
        /\ IF remaining >= 100
           THEN /\ Len(parts) = k + 1
                /\ parts[k + 1].truncated
                /\ parts[k + 1].length = remaining + 3
           ELSE Len(parts) = k

\* =================================================================
\* Local variant: save_data, load_existing_data and the index positions
\* =================================================================
\* the files an earlier run left: none, or those save_data wrote for an
\* empty database whose embedding model has another dimension
EarlierFiles ==
    {NoFiles} \cup
    {[index_file |-> FaissIndex(dim, <<>>),
      metadata_file |-> [exists |-> TRUE, chunk_metadata |-> <<>>,
                         document_registry |-> <<>>, next_index |-> 0]] :
        dim \in IndexDims}

\* __init__ on the files: initialize_index makes an empty index of
\* embedding_dim when FAISS is installed; load_existing_data replaces it
\* by the index file when there is one and FAISS is installed, and takes
\* chunk_metadata, document_registry and next_index from the metadata
\* file when there is one
load_existing_data(files, faiss) ==
    [index |-> IF faiss
               THEN (IF ~files.index_file.none THEN files.index_file
                     ELSE FaissIndex(embedding_dim, <<>>))
               ELSE NoIndex,
     chunk_metadata |-> IF files.metadata_file.exists
                        THEN files.metadata_file.chunk_metadata ELSE <<>>,
     document_registry |-> IF files.metadata_file.exists
                           THEN files.metadata_file.document_registry ELSE <<>>,
     next_index |-> IF files.metadata_file.exists
                    THEN files.metadata_file.next_index ELSE 0]

\* save_data: the index file is written first (when there is an index),
\* the metadata file after it; an exception of either write is caught and
\* leaves what was written before it. written is "both", "index" (the
\* metadata write failed) or "nothing".
save_data(files, written) ==
    LET index_file == IF written \in {"both", "index"} /\ ~index.none /\ FAISS_AVAILABLE
                      THEN index ELSE files.index_file
        metadata_file == IF written = "both"
                         THEN [exists |-> TRUE, chunk_metadata |-> chunk_metadata,
                               document_registry |-> document_registry,
                               next_index |-> next_index]
                         ELSE files.metadata_file
    IN [index_file |-> index_file, metadata_file |-> metadata_file]

PersistInit ==
    /\ ChunkerIdle
    /\ search_call = NoSearch
    /\ context_call = NoContext
    /\ IdleExcept({"disk"})
    /\ variant = "local"
    /\ model = "model"
    /\ FAISS_AVAILABLE \in BOOLEAN
    /\ disk \in EarlierFiles
    /\ LET db == load_existing_data(disk, FAISS_AVAILABLE) IN
       /\ index = db.index
       /\ chunk_metadata = db.chunk_metadata
       /\ document_registry = db.document_registry
       /\ next_index = db.next_index
    /\ ELASTICSEARCH_AVAILABLE = FALSE
    /\ es = "None"
    /\ init_outcome = "none"
    /\ es_up = FALSE
    /\ es_index = "missing"
    /\ es_docs = <<>>
    /\ last = Constructed

MaxPersisted == 3        \* bound on the vectors and entries kept across runs

\* the texts ingested between two saves: one chunk, two chunks
PersistContents == { <<"a", "b">>, <<"a", "b", NL, NL, "b", "a">> }

\* add_document, that is add_chunk_to_index for each chunk
PersistAddDocument(d, text) ==
    /\ Len(index.vectors) + Len(create_chunks(d, text)) <= MaxPersisted
    /\ next_index + Len(create_chunks(d, text)) <= MaxPersisted
    /\ LocalAddDocument(d, text)

SaveData(written) ==
    /\ disk' = save_data(disk, written)
    /\ last' = Outcome("save_data", "none", <<>>, "None", 0, {}, {}, FALSE, FALSE)
    /\ UNCHANGED <<cvars, search_call, context_call, embedding_cache, embed_call,
                   metadata_call, file_call, history, history_size,
                   repeat_threshold, loop_call, ingestion>>
    /\ UNCHANGED <<variant, model, FAISS_AVAILABLE, index, chunk_metadata,
                   document_registry, next_index, ELASTICSEARCH_AVAILABLE, es,
                   init_outcome, es_up, es_index, es_docs>>

\* the process ends and a new EnhancedVectorDatabase is constructed on the
\* same files, with FAISS installed or not
LoadExistingData(faiss) ==
    /\ FAISS_AVAILABLE' = faiss
    /\ LET db == load_existing_data(disk, faiss) IN
       /\ index' = db.index
       /\ chunk_metadata' = db.chunk_metadata
       /\ document_registry' = db.document_registry
       /\ next_index' = db.next_index
    /\ last' = Constructed
    /\ UNCHANGED <<cvars, svars, variant, model, ELASTICSEARCH_AVAILABLE, es,
                   init_outcome, es_up, es_index, es_docs>>

PersistNext ==
    \/ \E text \in PersistContents : PersistAddDocument("d1", text)
    \/ \E written \in {"both", "index", "nothing"} : SaveData(written)
    \/ \E faiss \in BOOLEAN : LoadExistingData(faiss)

PersistSpec == PersistInit /\ [][PersistNext]_vars

\* ------------------------------------------ claims on the positions
\* C30: next_index equals the number of stored chunk-metadata entries and
\* the number of vectors in the ANN index, and the metadata stored under
\* key i describes the vector at index position i.
C30_PositionsAligned ==
    variant = "local" =>
        /\ next_index = Cardinality(DOMAIN chunk_metadata)
        /\ ~index.none =>
              /\ next_index = Len(index.vectors)
              /\ \A i \in DOMAIN chunk_metadata :
                    /\ i < Len(index.vectors)
                    /\ chunk_metadata[i].index_position = i
                    /\ index.vectors[i + 1].of = chunk_metadata[i].content

\* =================================================================
\* add_document step by step, with a reader searching meanwhile
\* =================================================================
MaxIngested == 3         \* most chunks of the document being ingested

\* the text being ingested (one, two or three chunks) and the text of the
\* version ingested before, if any; no chunk of the earlier version has
\* the content of the chunk of the same chunk_index of the new one
IngestedContents ==
    { <<"a", "b">>,
      <<"a", "b", NL, NL, "b", "a">>,
      <<"a", "b", NL, NL, "b", "a", NL, NL, "a", "b">> }
EarlierContents == { <<>>, <<"b", "b">>, <<"b", "b", NL, NL, "a", "a">> }

\* the database after add_document of the earlier version
EarlierLocal(d, text, faiss) ==
    LET cs == create_chunks(d, text) IN
    AddChunks([chunk_metadata |-> <<>>,
               index |-> IF faiss THEN FaissIndex(embedding_dim, <<>>) ELSE NoIndex,
               next_index |-> 0, chunk_count |-> 0, failed |-> {}],
              cs, [i \in 1..Len(cs) |-> Encode(cs[i].content)])

\* add_document(document) has been called by the writer: chunks and
\* embeddings are made, written counts the chunks handed to the index so
\* far, pending are the actions of the bulk request the server has indexed
\* but not yet refreshed; observed is what the reader's last search found
Ingestion(d, cs, written, pending, refreshed, searched, observed) ==
    [op |-> "add_document", doc |-> d, chunks |-> cs, written |-> written,
     pending |-> pending, refreshed |-> refreshed, searched |-> searched,
     observed |-> observed]

IngestInit ==
    /\ ChunkerIdle
    /\ search_call = NoSearch
    /\ context_call = NoContext
    /\ IdleExcept({"ingestion"})
    /\ model = "model"
    /\ last = Constructed
    /\ \E text \in IngestedContents, earlier \in EarlierContents :
          /\ Len(create_chunks("d1", text)) <= MaxIngested
          /\ ingestion = Ingestion("d1", create_chunks("d1", text), 0, <<>>,
                                   FALSE, FALSE, {})
          /\ \/ /\ variant = "local"
                /\ FAISS_AVAILABLE \in BOOLEAN
                /\ LET db == EarlierLocal("d1", earlier, FAISS_AVAILABLE) IN
                   /\ index = db.index
                   /\ chunk_metadata = db.chunk_metadata
                   /\ next_index = db.next_index
                /\ document_registry =
                      IF earlier = <<>> THEN <<>>
                      ELSE Put(<<>>, "d1", [character_count |-> Len(earlier)])
                /\ ELASTICSEARCH_AVAILABLE = FALSE
                /\ es = "None"
                /\ init_outcome = "none"
                /\ es_up = FALSE
                /\ es_index = "missing"
                /\ es_docs = <<>>
             \/ /\ variant = "es"
                /\ ELASTICSEARCH_AVAILABLE = TRUE
                /\ es = "client"
                /\ init_outcome = "ready"
                /\ es_up = TRUE
                /\ es_index = "mapped"
                /\ LET cs == create_chunks("d1", earlier) IN
                   es_docs = BulkIndex(<<>>, cs,
                                       [i \in 1..Len(cs) |-> Encode(cs[i].content)], {})
                /\ FAISS_AVAILABLE = FALSE
                /\ index = NoIndex
                /\ chunk_metadata = <<>>
                /\ document_registry = <<>>
                /\ next_index = 0

\* local variant: one turn of "for chunk, embedding in zip(chunks,
\* embeddings): self.add_chunk_to_index(chunk, embedding)"; the document
\* is registered before the first turn
LocalAddChunkStep ==
    /\ variant = "local"
    /\ ingestion.op = "add_document"
    /\ ingestion.written < Len(ingestion.chunks)
    /\ LET chunk == ingestion.chunks[ingestion.written + 1]
           db == add_chunk_to_index([chunk_metadata |-> chunk_metadata,
                                     index |-> index,
                                     next_index |-> next_index,
                                     chunk_count |-> 0, failed |-> {}],
                                    chunk, Encode(chunk.content))
       IN
       /\ chunk_metadata' = db.chunk_metadata
       /\ index' = db.index
       /\ next_index' = db.next_index
       /\ document_registry' =
             Put(document_registry, ingestion.doc, [character_count |-> 0])
       /\ ingestion' = [ingestion EXCEPT !.written = @ + 1]
    /\ UNCHANGED <<cvars, search_call, context_call, embedding_cache, embed_call,
                   metadata_call, file_call, history, history_size,
                   repeat_threshold, loop_call, disk>>
    /\ UNCHANGED <<variant, model, FAISS_AVAILABLE, ELASTICSEARCH_AVAILABLE, es,
                   init_outcome, es_up, es_index, es_docs, last>>

\* distributed variant: the server indexes the next action of the bulk
\* request; it is searchable after the next refresh
ESBulkItemStep ==
    /\ variant = "es"
    /\ ingestion.op = "add_document"
    /\ ingestion.written < Len(ingestion.chunks)
    /\ LET chunk == ingestion.chunks[ingestion.written + 1] IN
       ingestion' =
           [ingestion EXCEPT
               !.written = @ + 1,
               !.pending = Put(@, chunk.id, BulkAction(chunk, Encode(chunk.content)))]
    /\ UNCHANGED <<cvars, dbvars, search_call, context_call, embedding_cache,
                   embed_call, metadata_call, file_call, history, history_size,
                   repeat_threshold, loop_call, disk>>

\* what a refresh makes searchable
Refreshed(docs, pending) ==
    [id \in (DOMAIN docs) \cup (DOMAIN pending) |->
        IF id \in DOMAIN pending THEN pending[id] ELSE docs[id]]

\* the periodic refresh of the index (index.refresh_interval), at any time
ESPeriodicRefresh ==
    /\ variant = "es"
    /\ ingestion.op = "add_document"
    /\ ingestion.pending # <<>>
    /\ ~ingestion.refreshed
    /\ es_docs' = Refreshed(es_docs, ingestion.pending)
    /\ ingestion' = [ingestion EXCEPT !.pending = <<>>]
    /\ UNCHANGED <<cvars, search_call, context_call, embedding_cache, embed_call,
                   metadata_call, file_call, history, history_size,
                   repeat_threshold, loop_call, disk>>
    /\ UNCHANGED <<variant, model, FAISS_AVAILABLE, index, chunk_metadata,
                   document_registry, next_index, ELASTICSEARCH_AVAILABLE, es,
                   init_outcome, es_up, es_index, last>>

\* self.es.indices.refresh after bulk has returned
ESRefreshStep ==
    /\ variant = "es"
    /\ ingestion.op = "add_document"
    /\ ingestion.written = Len(ingestion.chunks)
    /\ ~ingestion.refreshed
    /\ es_docs' = Refreshed(es_docs, ingestion.pending)
    /\ ingestion' = [ingestion EXCEPT !.pending = <<>>, !.refreshed = TRUE]
    /\ UNCHANGED <<cvars, search_call, context_call, embedding_cache, embed_call,
                   metadata_call, file_call, history, history_size,
                   repeat_threshold, loop_call, disk>>
    /\ UNCHANGED <<variant, model, FAISS_AVAILABLE, index, chunk_metadata,
                   document_registry, next_index, ELASTICSEARCH_AVAILABLE, es,
                   init_outcome, es_up, es_index, last>>

\* the stored chunks a search reads: the entries of chunk_metadata, the
\* searchable documents of the index
Searchable ==
    IF variant = "local"
    THEN {Triple(chunk_metadata[k]) : k \in DOMAIN chunk_metadata}
    ELSE {Triple(es_docs[id]) : id \in DOMAIN es_docs}

\* the chunks of the ingestion in progress among them, by chunk_index
SearchableOfIngestion ==
    {i \in 1..Len(ingestion.chunks) :
        <<ingestion.chunks[i].id, ingestion.chunks[i].chunk_index,
          ingestion.chunks[i].content>> \in Searchable}

\* search_similar_chunks by a reader, between two steps of the writer
ReaderSearch ==
    /\ ingestion.op = "add_document"
    /\ ingestion' = [ingestion EXCEPT !.searched = TRUE,
                                      !.observed = SearchableOfIngestion]
    /\ UNCHANGED <<cvars, dbvars, search_call, context_call, embedding_cache,
                   embed_call, metadata_call, file_call, history, history_size,
                   repeat_threshold, loop_call, disk>>

IngestNext ==
    \/ LocalAddChunkStep
    \/ ESBulkItemStep
    \/ ESPeriodicRefresh
    \/ ESRefreshStep
    \/ ReaderSearch

IngestSpec == IngestInit /\ [][IngestNext]_vars

\* ------------------------------------------------ claims on atomicity
\* C29: a search interleaved with an add_document of a document sees
\* either none of the chunks being written or all of them.
C29_IngestionAtomic ==
    (ingestion.op = "add_document" /\ ingestion.searched) =>
        \/ ingestion.observed = {}
        \/ ingestion.observed = 1..Len(ingestion.chunks)
====
